---- MODULE Spec2Model ----
(***************************************************************************)
(* A model of libpvm-harness: the host (src/src/main.rs) registers views   *)
(* with the PVM engine; every view instance is a worker thread draining    *)
(* its own channel of graph-mutation events (DBTr).  The CDM view          *)
(* (src/src/cdm_view.rs) translates every event into one Avro envelope of  *)
(* the CDM schema; the process-tree view (src/src/process_tree.rs) and the *)
(* network-traffic view (src/src/network_traffic.rs) aggregate.            *)
(***************************************************************************)
EXTENDS Integers, Sequences, FiniteSets, TLC

VARIABLES
    host,    \* position of the host thread (main)
    views,   \* instance id -> [kind, path, fmt]: the ViewInst the engine holds
    sent,    \* the mutation events the engine has emitted, in order
    chan,    \* instance id -> events pending on the instance's channel
    closed,  \* instance id -> the sending half of the channel is dropped
    pc,      \* instance id -> position of the worker thread
    handle,  \* instance id -> the File the view holds: [open, path, pos]
    buf,     \* instance id -> records in the avro Writer's unflushed block
    fs,      \* path -> content of the file, a sequence of items
    cache,   \* instance id -> the worker's per-stream cache
    faulty,  \* whether file operations and encoding can fail in this run
    enc,     \* the two encodings the encoder has produced: [prev, last]
    running, \* the flag the Ctrl-C handler clears
    kafka    \* the Kafka consumer and the host's place in its polling loop

vars == <<host, views, sent, chan, closed, pc, handle, buf, fs, cache, faulty, enc, running, kafka>>

(***************************************************************************)
(* Bounds of the model.                                                    *)
(***************************************************************************)
MaxEvents == 2   \* events the engine emits in one run
MaxViews  == 2   \* view instances the host may create
BlockSize == 2   \* records after which Writer::append writes out its block
MaxProcEvents == 3   \* events the engine emits in one process-tree run
MaxMsgs == 2         \* messages of the Kafka topic in one run

Inst == 1..MaxViews

\* The output paths a configuration names, and the files of the model: those
\* and the default outputs of the process-tree and network-traffic views.
ConfigPaths == {"cdm.bin", "out.bin"}

Paths == ConfigPaths \cup {"./proc_tree.json", "./network.log"}

(***************************************************************************)
(* Identifiers.  An internal ID prints as ID(n); mkuuid hashes that text   *)
(* into a version-5 UUID in the nil namespace.                             *)
(***************************************************************************)
Digit(d) ==
    CASE d = 0 -> "0" [] d = 1 -> "1" [] d = 2 -> "2" [] d = 3 -> "3"
      [] d = 4 -> "4" [] d = 5 -> "5" [] d = 6 -> "6" [] d = 7 -> "7"
      [] d = 8 -> "8" [] d = 9 -> "9"

RECURSIVE to_string(_)
to_string(n) ==
    IF n < 10 THEN Digit(n) ELSE to_string(n \div 10) \o Digit(n % 10)

DebugID(id) == "ID(" \o to_string(id) \o ")"

UuidNil == [uuid |-> "nil", ns |-> "", name |-> ""]

RawUuid(u) == [uuid |-> "raw", ns |-> "", name |-> u]

\* An identifier drawn from the number of events processed so far.
mkuuid_Counter(id) == [uuid |-> "v5", ns |-> "nil", name |-> DebugID(id + Len(sent))]

mkuuid(id) == [uuid |-> "v5", ns |-> "nil", name |-> DebugID(id)]

\* Uuid::hyphenated().to_string(): the textual form of a UUID.
hyphenated(u) ==
    IF u.uuid = "v5" THEN "v5-" \o u.ns \o "-" \o u.name
    ELSE IF u.uuid = "raw" THEN u.name
    ELSE "00000000-0000-0000-0000-000000000000"

\* impl ToAvro for UuidW: a 16-byte fixed value.
UuidW(u) == [avro |-> "fixed16", bytes |-> u]

\* Option<T>::avro(): None is the null branch of the union.
AvroNone == [avro |-> "null", bytes |-> UuidNil]

AvroOpt(o) == IF o.some THEN UuidW(o.v) ELSE AvroNone

Some(u) == [some |-> TRUE, v |-> u]

None == [some |-> FALSE, v |-> UuidNil]

(***************************************************************************)
(* Internal entities carried by the mutation events.                       *)
(***************************************************************************)
PVMDataType == {"Actor", "Store", "StoreCont", "EditSession", "Conduit"}

\* meta: the current value of every metadata key the node carries.
NoMeta == [k \in {} |-> ""]

Cmd(c) == [k \in {"cmdline"} |-> c]

DataNode(id, ty, name, uuid, ctx, meta) ==
    [node |-> "Data", id |-> id, pvm_ty |-> ty, ty_name |-> name,
     uuid |-> RawUuid(uuid), ctx |-> ctx, meta |-> meta]

PathNode(id, pth) == [node |-> "Path", id |-> id, path |-> pth]

NetNode(id, addr, port) == [node |-> "Net", id |-> id, addr |-> addr, port |-> port]

\* cont: the declared fields, a sequence of <<name, value>> pairs.
CtxNode(id, name, cont) == [node |-> "Ctx", id |-> id, ty_name |-> name, cont |-> cont]

\* props: the declared property names in the iteration order of ty.props.
SchemaDataNode(id, name, pvm_ty, props) ==
    [node |-> "SchemaData", id |-> id, name |-> name, pvm_ty |-> pvm_ty, props |-> props]

SchemaCtxNode(id, name, props) ==
    [node |-> "SchemaCtx", id |-> id, name |-> name, props |-> props]

InfRel(id, src, dst, ctx) == [rel |-> "Inf", id |-> id, src |-> src, dst |-> dst, ctx |-> ctx]

NamedRel(id, src, dst, start, end) ==
    [rel |-> "Named", id |-> id, src |-> src, dst |-> dst, start |-> start, end |-> end]

NodeTr == {"CreateNode", "UpdateNode"}

RelTr == {"CreateRel", "UpdateRel"}

DBTr(tr, ent) == [tr |-> tr, ent |-> ent]

\* The subtypes the engine creates data nodes of: the closed taxonomy, which
\* the unreachable!() arm for StoreCont asserts.
Delivered == PVMDataType \ {"StoreCont"}

Nodes ==
    { DataNode(i, t, "file", "u-1", 2, NoMeta) :
          i \in {1, 2}, t \in Delivered \ {"Actor"} }
    \cup { DataNode(i, "Actor", "process", "u-1", 2, c) :
          i \in {1, 2}, c \in {NoMeta, Cmd("sh")} }
    \cup { PathNode(1, "/bin/sh"), NetNode(1, "10.0.0.1", 80), NetNode(2, "::1", 8080) }
    \cup { CtxNode(2, "cadets_context", c) :
          c \in { <<>>, << <<"host", "h1">> >>,
                  << <<"type", "t">>, <<"schema", "s">> >> } }
    \cup { SchemaDataNode(3, "process", "Actor", p) :
          p \in { <<>>, <<"pid", "cmdline">>, <<"cmdline", "pid">> } }
    \cup { SchemaCtxNode(3, "cadets_context", <<"host", "time">>) }

Rels ==
    { InfRel(3, s, d, 2) : s \in {1, 2}, d \in {1, 2} }
    \cup { NamedRel(3, 1, 2, 1, 2), NamedRel(3, 2, 1, 3, 3) }

Events ==
    { DBTr(t, n) : t \in NodeTr, n \in Nodes } \cup { DBTr(t, r) : t \in RelTr, r \in Rels }

\* The events of the stream runs: one of every record kind the classifier
\* produces, and updates of an entity created before.
StreamEvents ==
    { DBTr("CreateNode", DataNode(1, "Actor", "process", "u-1", 2, NoMeta)),
      DBTr("UpdateNode", DataNode(1, "Actor", "process", "u-1", 2, Cmd("sh"))),
      DBTr("CreateNode", DataNode(2, "Store", "file", "u-2", 2, NoMeta)),
      DBTr("UpdateNode", DataNode(2, "Conduit", "socket", "u-2", 1, NoMeta)),
      DBTr("CreateNode", DataNode(2, "EditSession", "file", "u-2", 1, NoMeta)),
      DBTr("CreateNode", PathNode(1, "/bin/sh")),
      DBTr("UpdateNode", NetNode(1, "10.0.0.1", 80)),
      DBTr("CreateNode", CtxNode(2, "cadets_context", << <<"host", "h1">> >>)),
      DBTr("CreateNode", SchemaDataNode(3, "process", "Actor", <<"pid", "cmdline">>)),
      DBTr("UpdateNode", SchemaCtxNode(3, "cadets_context", <<"host", "time">>)),
      DBTr("CreateRel", InfRel(3, 1, 2, 2)),
      DBTr("UpdateRel", NamedRel(3, 1, 2, 1, 2)) }

IsNodeTr(e) == e.tr \in NodeTr

IsData(e, ty) == IsNodeTr(e) /\ e.ent.node = "Data" /\ e.ent.pvm_ty = ty

(***************************************************************************)
(* The schema model of cdm_view.rs: enumerations and their Avro values.    *)
(***************************************************************************)
AvroEnum(i, s) == [code |-> i, symbol |-> s]

RecordTypeAvro(ty) ==
    CASE ty = "RecordHost" -> AvroEnum(0, "RECORD_HOST")
      [] ty = "RecordProvenanceTagNode" -> AvroEnum(2, "RECORD_PROVENANCE_TAG_NODE")
      [] ty = "RecordSubject" -> AvroEnum(3, "RECORD_SUBBJECT")
      [] ty = "RecordSrcSinkObject" -> AvroEnum(10, "RECORD_SRC_SINK_OBJECT")
      [] ty = "RecordEvent" -> AvroEnum(1, "RECORD_EVENT")

HostTypeAvro(ty) == AvroEnum(1, "HOST_SERVER")

SubjectTypeAvro(ty) == AvroEnum(0, "SUBJECT_PROCESS")

SrcSinkTypeAvro(ty) == AvroEnum(123, "SRCSINK_UNKNOWN")

EventTypeAvro(ty) ==
    CASE ty = "EventFlowsTo" -> AvroEnum(16, "EVENT_FLOWS_TO")
      [] ty = "EventOther" -> AvroEnum(31, "EVENT_OTHER")

InstrumentationSourceAvro(ty) == AvroEnum(3, "SOURCE_FREEBSD_DTRACE_CADETS")

CDMVERSION == "19"

\* hashmap!(k => v, ...) and HashMap::insert: the later insertion wins.
Insert(m, k, v) == (k :> v) @@ m

EmptyMap == [k \in {} |-> ""]

RECURSIVE InsertAll(_, _)
InsertAll(m, kvs) ==
    IF kvs = <<>> THEN m
    ELSE InsertAll(Insert(m, kvs[1][1], kvs[1][2]), Tail(kvs))

hashmap(kvs) == InsertAll(EmptyMap, kvs)

\* [&str]::join(";")
RECURSIVE join(_, _)
join(p, sep) ==
    IF p = <<>> THEN ""
    ELSE IF Len(p) = 1 THEN p[1]
    ELSE p[1] \o sep \o join(Tail(p), sep)

(***************************************************************************)
(* The typed records (struct Host, Subject, ...) and their ToAvro.         *)
(***************************************************************************)
ProvenanceTagNodeAvro(v) ==
    [schema |-> "ProvenanceTagNode", tagId |-> UuidW(v.tag_id),
     subject |-> UuidW(UuidNil), properties |-> v.properties]

HostAvro(v) ==
    [schema |-> "Host", uuid |-> UuidW(UuidNil), hostName |-> v.host_name,
     hostType |-> HostTypeAvro(v.host_type)]

SubjectAvro(v) ==
    [schema |-> "Subject", uuid |-> UuidW(v.uuid), type |-> SubjectTypeAvro(v.ty),
     cid |-> 0, properties |-> v.properties]

AbstractObjectAvro(v) == [schema |-> "AbstractObject", properties |-> v.properties]

SrcSinkObjectAvro(v) ==
    [schema |-> "SrcSinkObject", uuid |-> UuidW(v.uuid),
     baseObject |-> AbstractObjectAvro(v.base_object), type |-> SrcSinkTypeAvro(v.ty)]

EventAvro(v) ==
    [schema |-> "Event", uuid |-> UuidW(v.uuid), type |-> EventTypeAvro(v.ty),
     subject |-> AvroOpt(v.subject),
     predicateObject |-> AvroOpt(v.predicate_object),
     predicateObject2 |-> AvroOpt(v.predicate_object2),
     timestampNanos |-> v.timestamp_nanos, properties |-> v.properties]

\* Record::into_avro: the datum and the discriminator, by variant.
into_avro(r) ==
    CASE r.variant = "Host" -> <<HostAvro(r), "RecordHost">>
      [] r.variant = "ProvenanceTagNode" ->
            <<ProvenanceTagNodeAvro(r), "RecordProvenanceTagNode">>
      [] r.variant = "Subject" -> <<SubjectAvro(r), "RecordSubject">>
      [] r.variant = "SrcSinkObject" -> <<SrcSinkObjectAvro(r), "RecordSrcSinkObject">>
      [] r.variant = "Event" -> <<EventAvro(r), "RecordEvent">>

\* An encoder that stamps the Host envelope with the other schema version.
RecordAvro_HostVersion(r) ==
    LET p == into_avro(r) IN
    [datum |-> p[1], CDMVersion |-> IF r.variant = "Host" THEN "20" ELSE CDMVERSION,
     type |-> RecordTypeAvro(p[2]),
     hostId |-> UuidW(UuidNil), sessionNumber |-> 0,
     source |-> InstrumentationSourceAvro("SourceFreebsdDtraceCadets")]

\* impl ToAvro for Record: the envelope (TCCDMDatum).
RecordAvro(r) ==
    LET p == into_avro(r) IN
    [datum |-> p[1], CDMVersion |-> CDMVERSION, type |-> RecordTypeAvro(p[2]),
     hostId |-> UuidW(UuidNil), sessionNumber |-> 0,
     source |-> InstrumentationSourceAvro("SourceFreebsdDtraceCadets")]

HostRecord == [variant |-> "Host", host_name |-> "", host_type |-> "HostServer"]

(***************************************************************************)
(* The event classifier: the match of CDMView::create's loop body.         *)
(***************************************************************************)
DataProps(tag, d) ==
    hashmap(<< <<"type", tag>>, <<"schema", d.ty_name>>,
               <<"uuid", hyphenated(d.uuid)>>,
               <<"ctx", hyphenated(mkuuid(d.ctx))>> >>)

SrcSink(tag, d) ==
    [variant |-> "SrcSinkObject", uuid |-> mkuuid(d.id),
     base_object |-> [properties |-> DataProps(tag, d)],
     ty |-> "SrcsinkUnknown"]

\* A classifier that takes the context identifier as it is.
ClassifyData_RawCtx(d) ==
    CASE d.pvm_ty = "Actor" ->
            [variant |-> "Subject", uuid |-> mkuuid(d.id), ty |-> "SubjectProcess",
             properties |->
                 hashmap(<< <<"type", "Node;Actor">>, <<"schema", d.ty_name>>,
                            <<"uuid", hyphenated(d.uuid)>>,
                            <<"ctx", to_string(d.ctx)>> >>)]
      [] d.pvm_ty = "Store" -> SrcSink("Node;Object;Store", d)
      [] d.pvm_ty = "Conduit" -> SrcSink("Node;Object;Conduit", d)
      [] d.pvm_ty = "EditSession" -> SrcSink("Node;Object;EditSession", d)

\* A classifier that tags every object as a store.
ClassifyData_SameTag(d) ==
    CASE d.pvm_ty = "Actor" ->
            [variant |-> "Subject", uuid |-> mkuuid(d.id), ty |-> "SubjectProcess",
             properties |-> DataProps("Node;Actor", d)]
      [] d.pvm_ty = "Store" -> SrcSink("Node;Object;Store", d)
      [] d.pvm_ty = "Conduit" -> SrcSink("Node;Object;Store", d)
      [] d.pvm_ty = "EditSession" -> SrcSink("Node;Object;Store", d)

ClassifyData(d) ==
    CASE d.pvm_ty = "Actor" ->
            [variant |-> "Subject", uuid |-> mkuuid(d.id), ty |-> "SubjectProcess",
             properties |-> DataProps("Node;Actor", d)]
      [] d.pvm_ty = "Store" -> SrcSink("Node;Object;Store", d)
      [] d.pvm_ty = "Conduit" -> SrcSink("Node;Object;Conduit", d)
      [] d.pvm_ty = "EditSession" -> SrcSink("Node;Object;EditSession", d)

TagNode(id, props) ==
    [variant |-> "ProvenanceTagNode", tag_id |-> mkuuid(id), properties |-> props]

\* A classifier that writes the port into the address, as host:port.
ClassifyNode_PortInAddr(n) ==
    CASE n.node = "Data" -> ClassifyData(n)
      [] n.node = "Path" ->
            TagNode(n.id, hashmap(<< <<"type", "Node;Name;Path">>, <<"path", n.path>> >>))
      [] n.node = "Net" ->
            TagNode(n.id, hashmap(<< <<"type", "Node;Name;Net">>, <<"addr", n.addr \o ":" \o to_string(n.port)>> >>))
      [] n.node = "Ctx" ->
            TagNode(n.id, InsertAll(hashmap(<< <<"type", "Node;Context">>,
                                               <<"schema", n.ty_name>> >>), n.cont))
      [] n.node = "SchemaData" ->
            TagNode(n.id, hashmap(<< <<"type", "Node;Schema">>, <<"name", n.name>>,
                                     <<"base", n.pvm_ty>>,
                                     <<"props", join(n.props, ";")>> >>))
      [] n.node = "SchemaCtx" ->
            TagNode(n.id, hashmap(<< <<"type", "Node;Schema">>, <<"name", n.name>>,
                                     <<"base", "Context">>,
                                     <<"props", join(n.props, ";")>> >>))

ClassifyNode(n) ==
    CASE n.node = "Data" -> ClassifyData(n)
      [] n.node = "Path" ->
            TagNode(n.id, hashmap(<< <<"type", "Node;Name;Path">>, <<"path", n.path>> >>))
      [] n.node = "Net" ->
            TagNode(n.id, hashmap(<< <<"type", "Node;Name;Net">>, <<"addr", n.addr>>,
                                     <<"port", to_string(n.port)>> >>))
      [] n.node = "Ctx" ->
            TagNode(n.id, InsertAll(hashmap(<< <<"type", "Node;Context">>,
                                               <<"schema", n.ty_name>> >>), n.cont))
      [] n.node = "SchemaData" ->
            TagNode(n.id, hashmap(<< <<"type", "Node;Schema">>, <<"name", n.name>>,
                                     <<"base", n.pvm_ty>>,
                                     <<"props", join(n.props, ";")>> >>))
      [] n.node = "SchemaCtx" ->
            TagNode(n.id, hashmap(<< <<"type", "Node;Schema">>, <<"name", n.name>>,
                                     <<"base", "Context">>,
                                     <<"props", join(n.props, ";")>> >>))

\* A classifier that takes the edges the other way round: subject and
\* predicate object of a Named edge, the two predicate objects of an
\* Inference edge.
ClassifyRel_Swapped(r) ==
    CASE r.rel = "Inf" ->
            [variant |-> "Event", uuid |-> mkuuid(r.id), ty |-> "EventFlowsTo",
             subject |-> None,
             predicate_object |-> Some(mkuuid(r.dst)),
             predicate_object2 |-> Some(mkuuid(r.src)),
             timestamp_nanos |-> 0,
             properties |-> hashmap(<< <<"type", "INF">>,
                                       <<"ctx", hyphenated(mkuuid(r.ctx))>> >>)]
      [] r.rel = "Named" ->
            [variant |-> "Event", uuid |-> mkuuid(r.id), ty |-> "EventOther",
             subject |-> Some(mkuuid(r.dst)),
             predicate_object |-> Some(mkuuid(r.src)),
             predicate_object2 |-> None,
             timestamp_nanos |-> 0,
             properties |-> hashmap(<< <<"type", "NAMED">>,
                                       <<"start", hyphenated(mkuuid(r.start))>>,
                                       <<"end", hyphenated(mkuuid(r.end))>> >>)]

\* A classifier that names the source of an Inference edge as its subject.
ClassifyRel_InfSubject(r) ==
    CASE r.rel = "Inf" ->
            [variant |-> "Event", uuid |-> mkuuid(r.id), ty |-> "EventFlowsTo",
             subject |-> Some(mkuuid(r.src)),
             predicate_object |-> Some(mkuuid(r.dst)),
             predicate_object2 |-> None,
             timestamp_nanos |-> 0,
             properties |-> hashmap(<< <<"type", "INF">>,
                                       <<"ctx", hyphenated(mkuuid(r.ctx))>> >>)]
      [] r.rel = "Named" ->
            [variant |-> "Event", uuid |-> mkuuid(r.id), ty |-> "EventOther",
             subject |-> Some(mkuuid(r.src)),
             predicate_object |-> Some(mkuuid(r.dst)),
             predicate_object2 |-> None,
             timestamp_nanos |-> 0,
             properties |-> hashmap(<< <<"type", "NAMED">>,
                                       <<"start", hyphenated(mkuuid(r.start))>>,
                                       <<"end", hyphenated(mkuuid(r.end))>> >>)]

ClassifyRel(r) ==
    CASE r.rel = "Inf" ->
            [variant |-> "Event", uuid |-> mkuuid(r.id), ty |-> "EventFlowsTo",
             subject |-> None,
             predicate_object |-> Some(mkuuid(r.src)),
             predicate_object2 |-> Some(mkuuid(r.dst)),
             timestamp_nanos |-> 0,
             properties |-> hashmap(<< <<"type", "INF">>,
                                       <<"ctx", hyphenated(mkuuid(r.ctx))>> >>)]
      [] r.rel = "Named" ->
            [variant |-> "Event", uuid |-> mkuuid(r.id), ty |-> "EventOther",
             subject |-> Some(mkuuid(r.src)),
             predicate_object |-> Some(mkuuid(r.dst)),
             predicate_object2 |-> None,
             timestamp_nanos |-> 0,
             properties |-> hashmap(<< <<"type", "NAMED">>,
                                       <<"start", hyphenated(mkuuid(r.start))>>,
                                       <<"end", hyphenated(mkuuid(r.end))>> >>)]

\* A classifier that lost the arm for Conduit.
Unmapped_NoConduit(e) == IsData(e, "StoreCont") \/ IsData(e, "Conduit")

\* PVMDataType::StoreCont => unreachable!(): the one arm without a record.
Unmapped(e) == IsData(e, "StoreCont")

\* A classifier that writes an update as a tag of the entity it updates.
Classify_UpdateTagged(e) ==
    IF e.tr \in {"UpdateNode", "UpdateRel"}
    THEN TagNode(e.ent.id, hashmap(<< <<"type", "Update">> >>))
    ELSE IF IsNodeTr(e) THEN ClassifyNode(e.ent) ELSE ClassifyRel(e.ent)

Classify(e) == IF IsNodeTr(e) THEN ClassifyNode(e.ent) ELSE ClassifyRel(e.ent)

(***************************************************************************)
(* Files.  A file is a sequence of items (container records, text lines,   *)
(* single bytes); a File value is a path and a position in items.          *)
(***************************************************************************)
Hole == [text |-> "\\0"]

Stale == [text |-> "stale"]

NoFile == [open |-> FALSE, path |-> "", pos |-> 0]

\* Write::write_all at position pos: overwrites, and extends past the end.
WriteAt(c, pos, s) ==
    LET n == IF Len(c) > pos + Len(s) THEN Len(c) ELSE pos + Len(s) IN
    [i \in 1..n |->
        IF i > pos /\ i <= pos + Len(s) THEN s[i - pos]
        ELSE IF i <= Len(c) THEN c[i] ELSE Hole]

\* ViewParamsExt::get_or_def
get_or_def(params, key, def) == IF key \in DOMAIN params THEN params[key] ELSE def

NoParams == [k \in {} |-> ""]

NoView == [kind |-> "none", params |-> NoParams]

\* The host reads its trace from a file: there is no consumer.
NoKafka == [pc |-> "none"]

\* No encoding produced yet.
NoEncoding == [event |-> "none"]

NoEncodings == [prev |-> NoEncoding, last |-> NoEncoding]

\* The process lives until main panics or returns.
Alive == host \notin {"panicked", "exited"}

Created == {i \in Inst : views[i].kind # "none"}

\* The events worker w has taken from its channel.
Received(w) == SubSeq(sent, 1, Len(sent) - Len(chan[w]))

(***************************************************************************)
(* The CDM worker: the thread CDMView::create spawns.                      *)
(***************************************************************************)
\* The worker panics: the thread unwinds, dropping the Writer and its File.
Panic(w) ==
    /\ pc' = [pc EXCEPT ![w] = "Aborted"]
    /\ buf' = [buf EXCEPT ![w] = <<>>]
    /\ handle' = [handle EXCEPT ![w].open = FALSE]

\* File::create("cdm.bin")
CdmPath(w) == "cdm.bin"

\* An open deferred to the first event: the worker takes an event first.
CdmOpen_Lazy(w) ==
    /\ Alive
    /\ views[w].kind = "cdm"
    /\ pc[w] = "Starting"
    /\ ~handle[w].open
    /\ chan[w] # <<>>
    /\ chan' = [chan EXCEPT ![w] = Tail(@)]
    /\ \/ /\ fs' = [fs EXCEPT ![CdmPath(w)] = <<>>]
          /\ handle' = [handle EXCEPT ![w] = [open |-> TRUE, path |-> CdmPath(w), pos |-> 0]]
          /\ UNCHANGED <<pc, buf>>
       \/ /\ faulty
          /\ Panic(w)
          /\ UNCHANGED fs
    /\ UNCHANGED <<host, views, sent, closed, cache, faulty, enc, running, kafka>>

\* Writer::new(&TCCDMDatumSchemata, File::create(..).unwrap())
CdmOpen(w) ==
    /\ Alive
    /\ views[w].kind = "cdm"
    /\ pc[w] = "Starting"
    /\ ~handle[w].open
    /\ \/ /\ fs' = [fs EXCEPT ![CdmPath(w)] = <<>>]
          /\ handle' = [handle EXCEPT ![w] = [open |-> TRUE, path |-> CdmPath(w), pos |-> 0]]
          /\ UNCHANGED <<pc, buf>>
       \/ /\ faulty
          /\ Panic(w)
          /\ UNCHANGED fs
    /\ UNCHANGED <<host, views, sent, chan, closed, cache, faulty, enc, running, kafka>>

\* A block written without advancing the file position.
WriteBlock_Rewind(w, b) ==
    /\ fs' = [fs EXCEPT ![handle[w].path] = WriteAt(@, handle[w].pos, b)]
    /\ handle' = handle
    /\ buf' = [buf EXCEPT ![w] = <<>>]

\* Writer::flush succeeding: the block goes to the file, the buffer is cleared.
WriteBlock(w, b) ==
    /\ fs' = [fs EXCEPT ![handle[w].path] = WriteAt(@, handle[w].pos, b)]
    /\ handle' = [handle EXCEPT ![w].pos = @ + Len(b)]
    /\ buf' = [buf EXCEPT ![w] = <<>>]

\* The bytes of a record cut short: what a write leaves of the record it was
\* writing when it failed.
Torn(r) == [torn |-> r]

\* A write failing part-way: some proper prefix of the block reached the file
\* (a failed write_all says nothing of how many bytes it wrote, so the prefix
\* may end inside a record), and the unwrap of the error panics the worker.
WriteFail(w, b) ==
    /\ faulty
    /\ \E k \in 0..(Len(b) - 1) :
          \E part \in {<<>>, <<Torn(b[k + 1])>>} :
              fs' = [fs EXCEPT ![handle[w].path] =
                        WriteAt(@, handle[w].pos, SubSeq(b, 1, k) \o part)]
    /\ Panic(w)

\* Writer::append(r).unwrap() followed by moving to position next: the
\* record is validated and encoded into the block, which is written out
\* once it is full; a validation error leaves the block as it was.
WriterAppend(w, r, next) ==
    \E b \in {Append(buf[w], RecordAvro(r))} :
        \/ /\ Len(b) < BlockSize
           /\ buf' = [buf EXCEPT ![w] = b]
           /\ pc' = [pc EXCEPT ![w] = next]
           /\ UNCHANGED <<fs, handle>>
        \/ /\ Len(b) >= BlockSize
           /\ WriteBlock(w, b)
           /\ pc' = [pc EXCEPT ![w] = next]
        \/ /\ Len(b) >= BlockSize
           /\ WriteFail(w, b)
        \/ /\ faulty
           /\ Panic(w)
           /\ UNCHANGED fs

\* A worker that enters its loop without the leading record.
CdmHost_Skip(w) ==
    /\ Alive
    /\ views[w].kind = "cdm"
    /\ pc[w] = "Starting"
    /\ handle[w].open
    /\ pc' = [pc EXCEPT ![w] = "Running"]
    /\ UNCHANGED <<host, views, sent, chan, closed, handle, buf, fs, cache, faulty, enc, running, kafka>>

\* writer.append(Record::Host(..)).unwrap()
CdmHost(w) ==
    /\ Alive
    /\ views[w].kind = "cdm"
    /\ pc[w] = "Starting"
    /\ handle[w].open
    /\ WriterAppend(w, HostRecord, "Running")
    /\ UNCHANGED <<host, views, sent, chan, closed, cache, faulty, enc, running, kafka>>

\* One iteration of `for tr in stream`: receive, classify, append.
CdmRecv(w) ==
    /\ Alive
    /\ views[w].kind = "cdm"
    /\ pc[w] = "Running"
    /\ chan[w] # <<>>
    /\ chan' = [chan EXCEPT ![w] = Tail(@)]
    /\ IF Unmapped(Head(chan[w]))
          THEN Panic(w) /\ UNCHANGED fs
          ELSE \E r \in {Classify(Head(chan[w]))} : WriterAppend(w, r, "Running")
    /\ UNCHANGED <<host, views, sent, closed, cache, faulty, enc, running, kafka>>

\* A loop exit that returns from the thread at once.
CdmDrain_Return(w) ==
    /\ Alive
    /\ views[w].kind = "cdm"
    /\ pc[w] = "Running"
    /\ chan[w] = <<>>
    /\ closed[w]
    /\ pc' = [pc EXCEPT ![w] = "Terminated"]
    /\ handle' = [handle EXCEPT ![w].open = FALSE]
    /\ buf' = [buf EXCEPT ![w] = <<>>]
    /\ UNCHANGED <<host, views, sent, chan, closed, fs, cache, faulty, enc, running, kafka>>

\* The iterator ends: the channel is empty and its sender is gone.
CdmDrain(w) ==
    /\ Alive
    /\ views[w].kind = "cdm"
    /\ pc[w] = "Running"
    /\ chan[w] = <<>>
    /\ closed[w]
    /\ pc' = [pc EXCEPT ![w] = "Draining"]
    /\ UNCHANGED <<host, views, sent, chan, closed, handle, buf, fs, cache, faulty, enc, running, kafka>>

\* A thread that returns without flushing the Writer.
CdmFlush_Drop(w) ==
    /\ Alive
    /\ views[w].kind = "cdm"
    /\ pc[w] = "Draining"
    /\ handle' = [handle EXCEPT ![w].open = FALSE]
    /\ buf' = [buf EXCEPT ![w] = <<>>]
    /\ pc' = [pc EXCEPT ![w] = "Terminated"]
    /\ UNCHANGED <<host, views, sent, chan, closed, fs, cache, faulty, enc, running, kafka>>

\* writer.flush().unwrap(), and the thread returns.
CdmFlush(w) ==
    /\ Alive
    /\ views[w].kind = "cdm"
    /\ pc[w] = "Draining"
    /\ \/ /\ fs' = [fs EXCEPT ![handle[w].path] = WriteAt(@, handle[w].pos, buf[w])]
          /\ handle' = [handle EXCEPT ![w] = [@ EXCEPT !.pos = @ + Len(buf[w]), !.open = FALSE]]
          /\ buf' = [buf EXCEPT ![w] = <<>>]
          /\ pc' = [pc EXCEPT ![w] = "Terminated"]
       \/ /\ buf[w] # <<>>
          /\ WriteFail(w, buf[w])
    /\ UNCHANGED <<host, views, sent, chan, closed, cache, faulty, enc, running, kafka>>

(***************************************************************************)
(* The engine, as the host drives it.                                      *)
(***************************************************************************)
\* The engine emits one mutation event and fans it out to every view; what
\* it sends to a worker that has ended stays in the channel, never taken.
Send(e) ==
    /\ host = "ingest"
    /\ Len(sent) < MaxEvents
    /\ sent' = Append(sent, e)
    /\ chan' = [i \in Inst |-> IF i \in Created THEN Append(chan[i], e) ELSE chan[i]]
    /\ UNCHANGED <<host, views, closed, pc, handle, buf, fs, cache, faulty, enc, running, kafka>>

\* engine.shutdown_pipeline(): the channels are closed ...
Shutdown ==
    /\ host = "ingest"
    /\ host' = "shutdown"
    /\ closed' = [i \in Inst |-> i \in Created]
    /\ UNCHANGED <<views, sent, chan, pc, handle, buf, fs, cache, faulty, enc, running, kafka>>

\* A host that returns from shutdown without waiting for its workers.
Join_NoWait ==
    /\ host = "shutdown"
    /\ host' = "exited"
    /\ UNCHANGED <<views, sent, chan, closed, pc, handle, buf, fs, cache, faulty, enc, running, kafka>>

\* ... and every worker thread is joined.
Join ==
    /\ host = "shutdown"
    /\ \A i \in Created : pc[i] \in {"Terminated", "Aborted"}
    /\ host' = "exited"
    /\ UNCHANGED <<views, sent, chan, closed, pc, handle, buf, fs, cache, faulty, enc, running, kafka>>

(***************************************************************************)
(* The process-tree view: ProcTreeView::create and the thread it spawns.   *)
(***************************************************************************)
\* n.meta.cur(key): the current value of a metadata key, if any.
cur(meta, key) ==
    IF key \in DOMAIN meta THEN [some |-> TRUE, v |-> meta[key]]
    ELSE [some |-> FALSE, v |-> ""]

\* A comparison that finds no two values different.
neq_Never(a, b) == FALSE

neq(a, b) ==
    IF a.some THEN (IF b.some THEN a.v # b.v ELSE TRUE) ELSE b.some

\* label.replace("\"", "\\\"")
DotEscape(label) ==
    CASE label = "say \"hi\"" -> "say \\\"hi\\\""
      [] OTHER -> label

DotBrace == [text |-> "}"]

DotHeader == [text |-> "digraph {\n"]

DotNode(id, label) ==
    [text |-> "\"" \o to_string(id) \o "\" [label=\"" \o DotEscape(label) \o "\"];\n"]

DotRel(src, dst) ==
    [text |-> "\"" \o to_string(src) \o "\"  -> \"" \o to_string(dst) \o "\";\n"]

\* json!({..}) printed on one line.
JsonNode(id, label) == [json |-> "node", a |-> to_string(id), b |-> label]

JsonRel(src, dst) == [json |-> "rel", a |-> to_string(src), b |-> to_string(dst)]

ProcPath(params) == get_or_def(params, "output", "./proc_tree.json")

ProcFmt(params) == get_or_def(params, "fmt", "json")

\* The next free instance slot.
Fresh(i) == views[i].kind = "none" /\ \A j \in 1..(i - 1) : views[j].kind # "none"

\* The host thread panics: the process dies, and every thread with it.
HostPanic ==
    /\ host' = "panicked"
    /\ UNCHANGED <<views, pc, handle, cache>>

\* ProcTreeView::create: the output is created, and for dot its frame is
\* written, on the calling thread; then the worker is spawned.
CreateProcTree(i, params) ==
    /\ host = "setup"
    /\ Fresh(i)
    /\ \/ /\ ProcFmt(params) = "json"
          /\ \/ /\ fs' = [fs EXCEPT ![ProcPath(params)] = <<>>]
                /\ handle' = [handle EXCEPT ![i] =
                                 [open |-> TRUE, path |-> ProcPath(params), pos |-> 0]]
                /\ views' = [views EXCEPT ![i] = [kind |-> "proc", params |-> params]]
                /\ pc' = [pc EXCEPT ![i] = "Running"]
                /\ UNCHANGED <<host, cache>>
             \/ /\ faulty
                /\ HostPanic
                /\ UNCHANGED fs
       \/ /\ ProcFmt(params) = "dot"
          /\ \/ /\ fs' = [fs EXCEPT ![ProcPath(params)] = <<DotHeader, DotBrace>>]
                /\ handle' = [handle EXCEPT ![i] =
                                 [open |-> TRUE, path |-> ProcPath(params), pos |-> 2]]
                /\ views' = [views EXCEPT ![i] = [kind |-> "proc", params |-> params]]
                /\ pc' = [pc EXCEPT ![i] = "Running"]
                /\ UNCHANGED <<host, cache>>
             \/ /\ faulty
                /\ HostPanic
                /\ \E c \in {<<Stale>>, <<>>, <<DotHeader>>} :
                      fs' = [fs EXCEPT ![ProcPath(params)] =
                                IF c = <<Stale>> THEN @ ELSE c]
       \/ /\ ProcFmt(params) \notin {"json", "dot"}
          /\ HostPanic
          /\ UNCHANGED fs
    /\ UNCHANGED <<sent, chan, closed, buf, faulty, enc, running, kafka>>

\* The worker's thread ends in a panic.
WorkerPanic(w) ==
    /\ pc' = [pc EXCEPT ![w] = "Aborted"]
    /\ handle' = [handle EXCEPT ![w].open = FALSE]

\* A dot writer that writes on from where it stands, without seeking back.
WriteLine_NoSeek(w, json, dot) ==
    IF ProcFmt(views[w].params) = "json"
    THEN \/ /\ fs' = [fs EXCEPT ![handle[w].path] = WriteAt(@, handle[w].pos, <<json>>)]
            /\ handle' = [handle EXCEPT ![w].pos = @ + 1]
            /\ UNCHANGED pc
         \/ /\ faulty
            /\ WorkerPanic(w)
            /\ UNCHANGED fs
    ELSE \/ /\ fs' = [fs EXCEPT ![handle[w].path] =
                         WriteAt(@, handle[w].pos, <<dot, DotBrace>>)]
            /\ handle' = [handle EXCEPT ![w].pos = @ + 2]
            /\ UNCHANGED pc
         \/ /\ faulty
            /\ WorkerPanic(w)
            /\ \/ UNCHANGED fs
               \/ fs' = [fs EXCEPT ![handle[w].path] = WriteAt(@, handle[w].pos - 1, <<dot>>)]

\* WriteMap::write_node / write_rel of the view's format, writing one line:
\* JSON appends it; dot seeks back over the closing brace and rewrites it.
WriteLine(w, json, dot) ==
    IF ProcFmt(views[w].params) = "json"
    THEN \/ /\ fs' = [fs EXCEPT ![handle[w].path] = WriteAt(@, handle[w].pos, <<json>>)]
            /\ handle' = [handle EXCEPT ![w].pos = @ + 1]
            /\ UNCHANGED pc
         \/ /\ faulty
            /\ WorkerPanic(w)
            /\ UNCHANGED fs
    ELSE \/ /\ fs' = [fs EXCEPT ![handle[w].path] =
                         WriteAt(@, handle[w].pos - 1, <<dot, DotBrace>>)]
            /\ handle' = [handle EXCEPT ![w].pos = @ + 1]
            /\ UNCHANGED pc
         \/ /\ faulty
            /\ WorkerPanic(w)
            /\ \/ UNCHANGED fs
               \/ fs' = [fs EXCEPT ![handle[w].path] = WriteAt(@, handle[w].pos - 1, <<dot>>)]

\* A loop that writes every Inference edge, whatever its ends.
ProcRecv_AnyRel(w) ==
    /\ Alive
    /\ views[w].kind = "proc"
    /\ pc[w] = "Running"
    /\ chan[w] # <<>>
    /\ chan' = [chan EXCEPT ![w] = Tail(@)]
    /\ \E e \in {Head(chan[w])} :
        \E cmd \in {IF IsData(e, "Actor")
                    THEN cur(e.ent.meta, get_or_def(views[w].params, "meta_key", "cmdline"))
                    ELSE cur(NoMeta, "")} :
          IF IsData(e, "Actor")
          THEN IF e.ent.id \notin DOMAIN cache[w] \/ neq(cmd, cache[w][e.ent.id])
               THEN /\ WriteLine(w, JsonNode(e.ent.id, IF cmd.some THEN cmd.v ELSE "???"),
                                    DotNode(e.ent.id, IF cmd.some THEN cmd.v ELSE "???"))
                    /\ cache' = [cache EXCEPT ![w] =
                                    IF pc'[w] = "Aborted" THEN @ ELSE (e.ent.id :> cmd) @@ @]
               ELSE UNCHANGED <<pc, handle, fs, cache>>
          ELSE IF e.tr = "CreateRel" /\ e.ent.rel = "Inf"
               THEN /\ WriteLine(w, JsonRel(e.ent.src, e.ent.dst), DotRel(e.ent.src, e.ent.dst))
                    /\ UNCHANGED cache
               ELSE UNCHANGED <<pc, handle, fs, cache>>
    /\ UNCHANGED <<host, views, sent, closed, buf, faulty, enc, running, kafka>>

\* One iteration of the process-tree loop.
ProcRecv(w) ==
    /\ Alive
    /\ views[w].kind = "proc"
    /\ pc[w] = "Running"
    /\ chan[w] # <<>>
    /\ chan' = [chan EXCEPT ![w] = Tail(@)]
    /\ \E e \in {Head(chan[w])} :
        \E cmd \in {IF IsData(e, "Actor")
                    THEN cur(e.ent.meta, get_or_def(views[w].params, "meta_key", "cmdline"))
                    ELSE cur(NoMeta, "")} :
          IF IsData(e, "Actor")
          THEN IF e.ent.id \notin DOMAIN cache[w] \/ neq(cmd, cache[w][e.ent.id])
               THEN /\ WriteLine(w, JsonNode(e.ent.id, IF cmd.some THEN cmd.v ELSE "???"),
                                    DotNode(e.ent.id, IF cmd.some THEN cmd.v ELSE "???"))
                    /\ cache' = [cache EXCEPT ![w] =
                                    IF pc'[w] = "Aborted" THEN @ ELSE (e.ent.id :> cmd) @@ @]
               ELSE UNCHANGED <<pc, handle, fs, cache>>
          ELSE IF e.tr = "CreateRel" /\ e.ent.rel = "Inf"
                  /\ e.ent.src \in DOMAIN cache[w] /\ e.ent.dst \in DOMAIN cache[w]
               THEN /\ WriteLine(w, JsonRel(e.ent.src, e.ent.dst), DotRel(e.ent.src, e.ent.dst))
                    /\ UNCHANGED cache
               ELSE UNCHANGED <<pc, handle, fs, cache>>
    /\ UNCHANGED <<host, views, sent, closed, buf, faulty, enc, running, kafka>>

\* The stream ends and the thread returns, dropping its output.
ProcDrain(w) ==
    /\ Alive
    /\ views[w].kind = "proc"
    /\ pc[w] = "Running"
    /\ chan[w] = <<>>
    /\ closed[w]
    /\ pc' = [pc EXCEPT ![w] = "Terminated"]
    /\ handle' = [handle EXCEPT ![w].open = FALSE]
    /\ UNCHANGED <<host, views, sent, chan, closed, buf, fs, cache, faulty, enc, running, kafka>>

(***************************************************************************)
(* The network-traffic view.                                               *)
(***************************************************************************)
NetPath(params) == get_or_def(params, "output", "./network.log")

NoNet == [actors |-> NoParams, conduits |-> {}, addrs |-> NoParams]

\* NetworkTrafficView::create: the output is created on the calling thread.
CreateNet(i, params) ==
    /\ host = "setup"
    /\ Fresh(i)
    /\ \/ /\ fs' = [fs EXCEPT ![NetPath(params)] = <<>>]
          /\ handle' = [handle EXCEPT ![i] =
                           [open |-> TRUE, path |-> NetPath(params), pos |-> 0]]
          /\ views' = [views EXCEPT ![i] = [kind |-> "net", params |-> params]]
          /\ pc' = [pc EXCEPT ![i] = "Running"]
          /\ cache' = [cache EXCEPT ![i] = NoNet]
          /\ UNCHANGED host
       \/ /\ faulty
          /\ HostPanic
          /\ UNCHANGED fs
    /\ UNCHANGED <<sent, chan, closed, buf, faulty, enc, running, kafka>>

\* Act::from_actor
from_actor(val) ==
    [uuid |-> val.uuid, pid |-> cur(val.meta, "pid"), cmdline |-> cur(val.meta, "cmdline")]

\* One iteration of the network-traffic loop: the caches are kept, and
\* nothing is written.
NetRecv(w) ==
    /\ Alive
    /\ views[w].kind = "net"
    /\ pc[w] = "Running"
    /\ chan[w] # <<>>
    /\ chan' = [chan EXCEPT ![w] = Tail(@)]
    /\ \E e \in {Head(chan[w])} :
          cache' = [cache EXCEPT ![w] =
              IF IsData(e, "Actor")
                 THEN [@ EXCEPT !.actors = (e.ent.id :> from_actor(e.ent)) @@ @]
              ELSE IF IsData(e, "Conduit")
                 THEN [@ EXCEPT !.conduits = @ \cup {e.ent.id}]
              ELSE IF IsNodeTr(e) /\ e.ent.node = "Net"
                 THEN [@ EXCEPT !.addrs =
                          (e.ent.id :> (e.ent.addr \o ":" \o to_string(e.ent.port))) @@ @]
              ELSE @]
    /\ UNCHANGED <<host, views, sent, closed, pc, handle, buf, fs, faulty, enc, running, kafka>>

NetDrain(w) ==
    /\ Alive
    /\ views[w].kind = "net"
    /\ pc[w] = "Running"
    /\ chan[w] = <<>>
    /\ closed[w]
    /\ pc' = [pc EXCEPT ![w] = "Terminated"]
    /\ handle' = [handle EXCEPT ![w].open = FALSE]
    /\ UNCHANGED <<host, views, sent, chan, closed, buf, fs, cache, faulty, enc, running, kafka>>

(***************************************************************************)
(* The host: views are created, then the engine ingests and shuts down.    *)
(***************************************************************************)
\* CDMView::create: the worker is spawned; the thread opens the output.
CreateCdm(i, params) ==
    /\ host = "setup"
    /\ Fresh(i)
    /\ views' = [views EXCEPT ![i] = [kind |-> "cdm", params |-> params]]
    /\ pc' = [pc EXCEPT ![i] = "Starting"]
    /\ UNCHANGED <<host, sent, chan, closed, handle, buf, fs, cache, faulty, enc, running, kafka>>

\* The views are in place: the host turns to its source of trace records.
StartIngest ==
    /\ host = "setup"
    /\ host' = "ingest"
    /\ UNCHANGED <<views, sent, chan, closed, pc, handle, buf, fs, cache, faulty, enc, running, kafka>>

(***************************************************************************)
(* The stream run: one CDM view, created with the output path the host     *)
(* configured, draining the events of one engine run.                      *)
(***************************************************************************)
Init ==
    /\ host = "ingest"
    /\ \E p \in ConfigPaths :
          views = [i \in Inst |->
                      IF i = 1 THEN [kind |-> "cdm", params |-> [k \in {"cdm_file"} |-> p]]
                      ELSE NoView]
    /\ sent = <<>>
    /\ chan = [i \in Inst |-> <<>>]
    /\ closed = [i \in Inst |-> FALSE]
    /\ pc = [i \in Inst |-> IF i = 1 THEN "Starting" ELSE "None"]
    /\ handle = [i \in Inst |-> NoFile]
    /\ buf = [i \in Inst |-> <<>>]
    /\ fs = [p \in Paths |-> <<Stale>>]
    /\ cache = [i \in Inst |-> NoParams]
    /\ faulty \in BOOLEAN
    /\ enc = NoEncodings
    /\ running = TRUE
    /\ kafka = NoKafka

Next ==
    \/ \E e \in StreamEvents : Send(e)
    \/ Shutdown
    \/ Join
    \/ \E w \in Inst : CdmOpen(w)
    \/ \E w \in Inst : CdmHost(w)
    \/ \E w \in Inst : CdmRecv(w)
    \/ \E w \in Inst : CdmDrain(w)
    \/ \E w \in Inst : CdmFlush(w)

Spec == Init /\ [][Next]_vars

\* The stream run under a scheduler that runs every worker thread that can
\* take a step, over a stream of three kinds of event.
LiveEvents ==
    { DBTr("CreateNode", DataNode(1, "Actor", "process", "u-1", 2, Cmd("sh"))),
      DBTr("CreateNode", CtxNode(2, "cadets_context", << <<"host", "h1">> >>)),
      DBTr("UpdateRel", NamedRel(3, 1, 2, 1, 2)) }

NextLive ==
    \/ \E e \in LiveEvents : Send(e)
    \/ Shutdown
    \/ Join
    \/ \E w \in Inst : CdmOpen(w)
    \/ \E w \in Inst : CdmHost(w)
    \/ \E w \in Inst : CdmRecv(w)
    \/ \E w \in Inst : CdmDrain(w)
    \/ \E w \in Inst : CdmFlush(w)

FairSpec ==
    /\ Init
    /\ [][NextLive]_vars
    /\ \A w \in Inst :
          WF_vars(CdmOpen(w) \/ CdmHost(w) \/ CdmRecv(w) \/ CdmDrain(w) \/ CdmFlush(w))

(***************************************************************************)
(* Properties of the stream run.                                           *)
(***************************************************************************)
CdmWorkers == {w \in Inst : views[w].kind = "cdm"}

Opened(w) == handle[w].path # ""

\* What worker w's File has written, and what it has appended to its Writer.
Flushed(w) == IF Opened(w) THEN SubSeq(fs[handle[w].path], 1, handle[w].pos) ELSE <<>>

Appended(w) == Flushed(w) \o buf[w]

Container(w) == IF Opened(w) THEN fs[handle[w].path] ELSE <<>>

HostEnvelope == RecordAvro(HostRecord)

Translation(evs) == [i \in 1..Len(evs) |-> RecordAvro(Classify(evs[i]))]

IsHostEnvelope(r) == r.datum.schema = "Host"

Ended == {"Terminated", "Aborted"}

\* C1: when the worker has drained N events and returned without a failure,
\* the container holds N+1 records: the Host record, then the translation of
\* event i at place i+1, none dropped, duplicated or reordered.
C1_OrderPreserved ==
    \A w \in CdmWorkers :
        pc[w] = "Terminated" =>
            /\ Len(Container(w)) = Len(sent) + 1
            /\ Container(w) = <<HostEnvelope>> \o Translation(sent)

C1_Witness ==
    /\ pc[1] = "Terminated"
    /\ Len(sent) >= 2
    /\ sent[1] # sent[2]
    /\ Len(Container(1)) = Len(sent) + 1

\* C2: no event is taken from the channel before the Host record (empty host
\* name, the fixed host type, the nil identifier) is appended, the appended
\* records start with it, and no later record is a Host record.
C2_State ==
    \A w \in CdmWorkers :
        /\ pc[w] = "Starting" => Received(w) = <<>>
        /\ pc[w] \in {"Running", "Draining", "Terminated"} =>
              /\ Appended(w) # <<>>
              /\ Appended(w)[1] = HostEnvelope
              /\ Appended(w)[1].datum.hostName = ""
              /\ Appended(w)[1].datum.hostType = AvroEnum(1, "HOST_SERVER")
              /\ Appended(w)[1].datum.uuid = UuidW(UuidNil)
        /\ \A i \in 2..Len(Appended(w)) : ~IsHostEnvelope(Appended(w)[i])

C2_Step ==
    \A w \in CdmWorkers :
        Len(chan'[w]) < Len(chan[w]) =>
            /\ Appended(w) # <<>>
            /\ IsHostEnvelope(Appended(w)[1])

C2_HostFirst == [](C2_State) /\ [][C2_Step]_vars

C2_Witness ==
    /\ pc[1] = "Running"
    /\ Len(Received(1)) >= 1
    /\ Len(Appended(1)) >= 2
    /\ IsHostEnvelope(Appended(1)[1])

\* C3: in a run without I/O faults, once the channel is closed the worker
\* eventually has flushed every record and returned; having returned it
\* takes nothing more from the channel and writes nothing more; with no
\* event delivered the container then holds the Host record alone.
C3_Live ==
    \A w \in Inst :
        (closed[w] /\ ~faulty) ~>
            (/\ pc[w] = "Terminated"
             /\ buf[w] = <<>>
             /\ Container(w) = <<HostEnvelope>> \o Translation(sent))

C3_Step ==
    \A w \in CdmWorkers :
        pc[w] \in Ended =>
            /\ pc'[w] = pc[w]
            /\ Len(chan'[w]) >= Len(chan[w])
            /\ buf'[w] = buf[w]
            /\ Container(w)' = Container(w)

C3_Empty ==
    \A w \in CdmWorkers :
        (pc[w] = "Terminated" /\ sent = <<>>) => Container(w) = <<HostEnvelope>>

C3_Termination == C3_Live /\ [](C3_Empty) /\ [][C3_Step]_vars

C3_Witness ==
    /\ pc[1] = "Terminated"
    /\ closed[1]
    /\ sent = <<>>
    /\ Container(1) = <<HostEnvelope>>

\* C4 as stated: the worker moves only Starting -> Running -> Draining ->
\* Terminated, a failed open, append or flush included: the thread never ends
\* without having passed through Draining.
Lifecycle(w) == IF pc[w] = "Aborted" THEN "Terminated" ELSE pc[w]

C4_Original ==
    [][\A w \in CdmWorkers :
          Lifecycle(w)' # Lifecycle(w) =>
              <<Lifecycle(w), Lifecycle(w)'>> \in
                  { <<"Starting", "Running">>, <<"Running", "Draining">>,
                    <<"Draining", "Terminated">> }]_vars

\* C4 as amended: the worker moves only Starting -> Running -> Draining ->
\* Terminated, except that a panic ends the thread from Starting, Running or
\* Draining at once, without a flush; a thread that returns normally has
\* passed through Draining, and an ended thread takes no further step.
C4_Lifecycle ==
    [][\A w \in CdmWorkers :
          pc'[w] # pc[w] =>
              <<pc[w], pc'[w]>> \in
                  { <<"Starting", "Running">>, <<"Running", "Draining">>,
                    <<"Draining", "Terminated">>, <<"Starting", "Aborted">>,
                    <<"Running", "Aborted">>, <<"Draining", "Aborted">> }]_vars

C4_Witness ==
    /\ pc[1] = "Aborted"
    /\ Len(Received(1)) >= 1
    /\ ~closed[1]

\* The symbol that names each record kind: the RecordType variant of the
\* kind, in the upper-case form of the schema's enumeration.
RecordTypeName(kind) ==
    CASE kind = "Host" -> "RECORD_HOST"
      [] kind = "ProvenanceTagNode" -> "RECORD_PROVENANCE_TAG_NODE"
      [] kind = "Subject" -> "RECORD_SUBJECT"
      [] kind = "SrcSinkObject" -> "RECORD_SRC_SINK_OBJECT"
      [] kind = "Event" -> "RECORD_EVENT"

\* C5: in every envelope the worker appends, the discriminator in the type
\* field names the kind of the record in the datum field.
C5_TagNamesKind ==
    \A w \in CdmWorkers :
        \A i \in 1..Len(Appended(w)) :
            Appended(w)[i].type.symbol = RecordTypeName(Appended(w)[i].datum.schema)

\* C6: every event the engine delivers, of whichever of the four kinds and
\* whichever entity subtype, is classified into exactly one record of one of
\* the external kinds; the unreachable arm is never taken, so that without an
\* I/O fault the worker never panics.
RecordKinds == {"ProvenanceTagNode", "Subject", "SrcSinkObject", "Event"}

C7_ConfiguredPath ==
    \A w \in CdmWorkers :
        /\ Opened(w) => handle[w].path = views[w].params["cdm_file"]
        /\ \A q \in Paths \ {views[w].params["cdm_file"]} : fs[q] = <<Stale>>

\* C10: when the open fails the worker aborts having taken no event from its
\* channel and having appended nothing: no file has been touched.
OpenFailed(w) == pc[w] = "Aborted" /\ ~Opened(w)

C10_OpenFailsFirst ==
    \A w \in CdmWorkers :
        /\ ~Opened(w) => Received(w) = <<>>
        /\ OpenFailed(w) =>
              /\ Received(w) = <<>>
              /\ buf[w] = <<>>
              /\ \A q \in Paths : fs[q] = <<Stale>>

C10_Witness ==
    /\ OpenFailed(1)
    /\ Len(chan[1]) >= 1
    /\ Len(chan[1]) = Len(sent)

(***************************************************************************)
(* The host run: up to MaxViews views of any kind are created with the     *)
(* options a configuration may give them, then a short stream is ingested. *)
(***************************************************************************)
CdmConfigs == { [k \in {"cdm_file"} |-> p] : p \in ConfigPaths }

ProcConfigs ==
    { [k \in {"output"} |-> "cdm.bin"],
      [k \in {"output", "fmt"} |-> IF k = "fmt" THEN "dot" ELSE "out.bin"] }

NetConfigs == { NoParams }

HostEvents ==
    { DBTr("CreateNode", DataNode(1, "Actor", "process", "u-1", 2, Cmd("sh"))),
      DBTr("UpdateNode", DataNode(2, "Actor", "process", "u-2", 2, NoMeta)),
      DBTr("CreateRel", InfRel(3, 1, 2, 2)) }

InitHost ==
    /\ host = "setup"
    /\ views = [i \in Inst |-> NoView]
    /\ sent = <<>>
    /\ chan = [i \in Inst |-> <<>>]
    /\ closed = [i \in Inst |-> FALSE]
    /\ pc = [i \in Inst |-> "None"]
    /\ handle = [i \in Inst |-> NoFile]
    /\ buf = [i \in Inst |-> <<>>]
    /\ fs = [p \in Paths |-> <<Stale>>]
    /\ cache = [i \in Inst |-> NoParams]
    /\ faulty \in BOOLEAN
    /\ enc = NoEncodings
    /\ running = TRUE
    /\ kafka = NoKafka

NextHost ==
    \/ \E i \in Inst, c \in CdmConfigs : CreateCdm(i, c)
    \/ \E i \in Inst, c \in ProcConfigs : CreateProcTree(i, c)
    \/ \E i \in Inst, c \in NetConfigs : CreateNet(i, c)
    \/ StartIngest
    \/ \E e \in HostEvents : Send(e)
    \/ Shutdown
    \/ Join
    \/ \E w \in Inst : CdmOpen(w)
    \/ \E w \in Inst : CdmHost(w)
    \/ \E w \in Inst : CdmRecv(w)
    \/ \E w \in Inst : CdmDrain(w)
    \/ \E w \in Inst : CdmFlush(w)
    \/ \E w \in Inst : ProcRecv(w)
    \/ \E w \in Inst : ProcDrain(w)
    \/ \E w \in Inst : NetRecv(w)
    \/ \E w \in Inst : NetDrain(w)

SpecHost == InitHost /\ [][NextHost]_vars

(***************************************************************************)
(* Properties of the host run.                                             *)
(***************************************************************************)
\* The output destination the configuration gives view w.
Configured(w) ==
    CASE views[w].kind = "cdm" -> views[w].params["cdm_file"]
      [] views[w].kind = "proc" -> ProcPath(views[w].params)
      [] views[w].kind = "net" -> NetPath(views[w].params)

\* C8: two views configured with different destinations never hold the same
\* file open, and what a CDM worker leaves in its container is the Host
\* record and the translation of the events of its own channel.
C8_ExclusiveOutput ==
    /\ \A v \in Created, w \in Created :
          (v # w /\ Configured(v) # Configured(w) /\ handle[v].open /\ handle[w].open)
              => handle[v].path # handle[w].path
    /\ \A w \in CdmWorkers :
          pc[w] = "Terminated" => Container(w) = <<HostEnvelope>> \o Translation(sent)

\* C9: a view that cannot open its output aborts its own worker only: the
\* host thread creating it does not panic, taking a running sibling down.
C9_FailureConfined ==
    ~(/\ host = "panicked"
      /\ \E w \in Created : pc[w] \in {"Starting", "Running", "Draining"})

(***************************************************************************)
(* Failure and shutdown of the stream run.                                 *)
(***************************************************************************)
IsTorn(item) == "torn" \in DOMAIN item

\* C11: when the append for event k fails, the worker ends on that step; the
\* output then holds nothing at the place of record k, neither the record nor
\* a part of it, and its whole records are those of the Host and of the
\* events before k; the ended worker takes no further event, appends nothing
\* and writes nothing: the append is not retried.
C11_Step ==
    \A w \in CdmWorkers :
        (pc[w] = "Running" /\ pc'[w] = "Aborted") =>
            /\ chan[w] # <<>>
            /\ chan'[w] = Tail(chan[w])
            /\ Len(Container(w)') <= Len(Received(w)) + 1
            /\ \A i \in 1..Len(Container(w)') :
                  \/ IsTorn(Container(w)'[i])
                  \/ /\ i <= Len(Received(w)) + 1
                     /\ Container(w)'[i] = (<<HostEnvelope>> \o Translation(Received(w)))[i]

C11_Stop ==
    \A w \in CdmWorkers :
        pc[w] = "Aborted" =>
            /\ pc'[w] = "Aborted"
            /\ Len(chan'[w]) >= Len(chan[w])
            /\ buf'[w] = buf[w]
            /\ Container(w)' = Container(w)

C11_AllOrNothing == [][C11_Step /\ C11_Stop]_vars

Emitted(w) ==
    IF pc[w] \in {"Running", "Draining", "Terminated"}
    THEN [i \in 1..Len(Received(w)) |-> Appended(w)[i + 1]]
    ELSE <<>>

\* The property bag of a record.
Properties(d) ==
    IF d.schema = "SrcSinkObject" THEN d.baseObject.properties
    ELSE IF d.schema = "Host" THEN EmptyMap
    ELSE d.properties

\* The identifier of a record.
RecordId(d) == IF d.schema = "ProvenanceTagNode" THEN d.tagId ELSE d.uuid

\* The pairs <<internal identifier, external identifier in text>> that the
\* envelope a, appended for event e, carries.
Occurrences(e, a) ==
    {<<e.ent.id, hyphenated(RecordId(a.datum).bytes)>>}
    \cup (IF IsNodeTr(e) /\ e.ent.node = "Data"
          THEN {<<e.ent.ctx, Properties(a.datum)["ctx"]>>} ELSE {})
    \cup (IF ~IsNodeTr(e) /\ e.ent.rel = "Inf"
          THEN {<<e.ent.src, hyphenated(a.datum.predicateObject.bytes)>>,
                <<e.ent.dst, hyphenated(a.datum.predicateObject2.bytes)>>,
                <<e.ent.ctx, Properties(a.datum)["ctx"]>>}
          ELSE {})
    \cup (IF ~IsNodeTr(e) /\ e.ent.rel = "Named"
          THEN {<<e.ent.src, hyphenated(a.datum.subject.bytes)>>,
                <<e.ent.dst, hyphenated(a.datum.predicateObject.bytes)>>,
                <<e.ent.start, Properties(a.datum)["start"]>>,
                <<e.ent.end, Properties(a.datum)["end"]>>}
          ELSE {})

StreamOccurrences(w) ==
    UNION { Occurrences(Received(w)[i], Emitted(w)[i]) : i \in 1..Len(Emitted(w)) }

\* The version-5 identifier of the text ID(n) in the nil namespace, in text.
Derived(n) == "v5-nil-ID(" \o to_string(n) \o ")"

\* C13: every external identifier in the output is the one function of the
\* internal identifier it stands for, whatever was processed before: two
\* occurrences of one internal identifier carry the same external identifier.
C13_StableIds ==
    \A w \in CdmWorkers :
        /\ \A o \in StreamOccurrences(w) : o[2] = Derived(o[1])
        /\ \A o \in StreamOccurrences(w), q \in StreamOccurrences(w) :
              (o[1] = q[1]) => (o[2] = q[2])

C13_Witness ==
    /\ Len(Emitted(1)) >= 2
    /\ ~IsNodeTr(Received(1)[2])
    /\ Received(1)[2].ent.rel = "Named"
    /\ IsData(Received(1)[1], "Actor")
    /\ Received(1)[1].ent.id = Received(1)[2].ent.src
    /\ Emitted(1)[1].datum.uuid = Emitted(1)[2].datum.subject

\* The all-zero identifier as a field value.
ZeroId == UuidW(UuidNil)

\* C14: a participant the internal entity does not have (the subject of an
\* inference edge, the second predicate object of a named edge, the subject
\* of a tag node) is written as the null branch, and no participant field of
\* any record holds the all-zero identifier.
C14_AbsentNotZero ==
    \A w \in CdmWorkers :
        /\ \A i \in 1..Len(Emitted(w)) :
              /\ (~IsNodeTr(Received(w)[i]) /\ Received(w)[i].ent.rel = "Inf") =>
                    Emitted(w)[i].datum.subject = AvroNone
              /\ (~IsNodeTr(Received(w)[i]) /\ Received(w)[i].ent.rel = "Named") =>
                    Emitted(w)[i].datum.predicateObject2 = AvroNone
        /\ \A i \in 1..Len(Appended(w)) :
              /\ Appended(w)[i].datum.schema = "Event" =>
                    /\ Appended(w)[i].datum.subject # ZeroId
                    /\ Appended(w)[i].datum.predicateObject # ZeroId
                    /\ Appended(w)[i].datum.predicateObject2 # ZeroId
              /\ Appended(w)[i].datum.schema = "ProvenanceTagNode" =>
                    Appended(w)[i].datum.subject # ZeroId

(***************************************************************************)
(* Envelopes of one output stream.                                         *)
(***************************************************************************)
\* The metadata an envelope wraps its record in.
Metadata(a) ==
    [CDMVersion |-> a.CDMVersion, hostId |-> a.hostId,
     sessionNumber |-> a.sessionNumber, source |-> a.source]

\* C15: every envelope of a stream, the Host envelope included, carries the
\* same version string, the zeroed host identifier, session number 0 and the
\* same instrumentation-source tag, and no symbol is written with two codes.
C15_UniformMetadata ==
    \A w \in CdmWorkers :
        /\ \A i \in 1..Len(Appended(w)) :
              /\ Appended(w)[i].CDMVersion = CDMVERSION
              /\ Appended(w)[i].hostId = ZeroId
              /\ Appended(w)[i].sessionNumber = 0
              /\ Appended(w)[i].source = AvroEnum(3, "SOURCE_FREEBSD_DTRACE_CADETS")
              /\ Metadata(Appended(w)[i]) = Metadata(Appended(w)[1])
        /\ \A i \in 1..Len(Appended(w)), j \in 1..Len(Appended(w)) :
              (Appended(w)[i].type.symbol = Appended(w)[j].type.symbol)
                  => (Appended(w)[i].type.code = Appended(w)[j].type.code)

C15_Witness ==
    /\ Len(Appended(1)) >= 3
    /\ Appended(1)[1].datum.schema = "Host"
    /\ Appended(1)[2].datum.schema = "Subject"
    /\ Appended(1)[3].datum.schema = "Event"
    /\ Metadata(Appended(1)[3]) = Metadata(Appended(1)[1])

(***************************************************************************)
(* The encoder run: a CDM view created with a schema-version option        *)
(* encodes events one at a time, as Writer::append does with the value of  *)
(* Record::avro.  A property bag is a HashMap, built anew for every        *)
(* record: its entries are written in the order the map iterates, which    *)
(* the hasher's per-map seed decides.                                      *)
(***************************************************************************)
SchemaVersions == {"19", "20"}

\* The events of the encoder run: those of the stream run, and the schema
\* node of StreamEvents as a process whose ty.props iterates the other way.
EncEvents ==
    StreamEvents
    \cup { DBTr("CreateNode", SchemaDataNode(3, "process", "Actor", <<"cmdline", "pid">>)) }

\* The orders in which a map with the keys of m can iterate.
IterationOrders(m) ==
    { o \in [1..Cardinality(DOMAIN m) -> DOMAIN m] :
          \A i \in DOMAIN o, j \in DOMAIN o : o[i] = o[j] => i = j }

\* The bytes of the envelope a: its fields in the order of the schema, the
\* entries of its property bag in the order o.
to_avro_datum(a, o) ==
    [type |-> a.type, CDMVersion |-> a.CDMVersion, hostId |-> a.hostId,
     sessionNumber |-> a.sessionNumber, source |-> a.source,
     datum |-> [f \in DOMAIN a.datum \ {"properties", "baseObject"} |-> a.datum[f]],
     entries |-> [i \in DOMAIN o |-> <<o[i], Properties(a.datum)[o[i]]>>]]

\* The worker encodes the record of event e: the first encoding of a run, or
\* the second.
Encode(e) ==
    /\ views[1].kind = "cdm"
    /\ enc.prev = NoEncoding
    /\ \E a \in {RecordAvro(Classify(e))} :
          \E o \in IterationOrders(Properties(a.datum)) :
              enc' = [prev |-> enc.last,
                      last |-> [event |-> e, bytes |-> to_avro_datum(a, o)]]
    /\ UNCHANGED <<host, views, sent, chan, closed, pc, handle, buf, fs, cache, faulty,
                   running, kafka>>

InitEnc ==
    /\ host = "ingest"
    /\ \E v \in SchemaVersions :
          views = [i \in Inst |->
                      IF i = 1
                      THEN [kind |-> "cdm",
                            params |-> [k \in {"cdm_file", "schema_version"} |->
                                           IF k = "cdm_file" THEN "cdm.bin" ELSE v]]
                      ELSE NoView]
    /\ sent = <<>>
    /\ chan = [i \in Inst |-> <<>>]
    /\ closed = [i \in Inst |-> FALSE]
    /\ pc = [i \in Inst |-> IF i = 1 THEN "Running" ELSE "None"]
    /\ handle = [i \in Inst |-> NoFile]
    /\ buf = [i \in Inst |-> <<>>]
    /\ fs = [p \in Paths |-> <<Stale>>]
    /\ cache = [i \in Inst |-> NoParams]
    /\ faulty = FALSE
    /\ enc = NoEncodings
    /\ running = TRUE
    /\ kafka = NoKafka

NextEnc == \E e \in EncEvents : Encode(e)

SpecEnc == InitEnc /\ [][NextEnc]_vars

\* The event without the iteration order of the maps behind it.
Logical(e) ==
    IF IsNodeTr(e) /\ e.ent.node = "SchemaData"
    THEN [tr |-> e.tr, id |-> e.ent.id, name |-> e.ent.name, pvm_ty |-> e.ent.pvm_ty,
          props |-> {e.ent.props[i] : i \in DOMAIN e.ent.props}]
    ELSE [tr |-> e.tr, ent |-> e.ent]

Encoded(x) == x # NoEncoding

\* C16: two encodings of the same event, under the one schema version of
\* the view, are the same bytes.
C16_Deterministic ==
    (Encoded(enc.prev) /\ Encoded(enc.last)
        /\ Logical(enc.prev.event) = Logical(enc.last.event))
            => enc.prev.bytes = enc.last.bytes

\* C17: the version string in every envelope is the one the view's
\* schema-version option selects.
C17_VersionSelected ==
    Encoded(enc.last) => enc.last.bytes.CDMVersion = views[1].params["schema_version"]

(***************************************************************************)
(* The mapping of single events, on the records the stream run appends.    *)
(***************************************************************************)
\* A property bag given as its entries.
Bag(kvs) == [k \in {kv[1] : kv \in kvs} |-> (CHOOSE kv \in kvs : kv[1] = k)[2]]

\* C18: the record appended for a CreateNode or UpdateNode of an Actor with
\* internal id i, uuid U, schema name s and context C is a Subject with
\* identifier derive(i), subtype process, and the property bag
\* {type: "Node;Actor", schema: s, uuid: U, ctx: derive(C)}, no key more.
C18_ActorMapping ==
    \A w \in CdmWorkers :
        \A i \in 1..Len(Emitted(w)) :
            IsData(Received(w)[i], "Actor") =>
                Emitted(w)[i].datum =
                    [schema |-> "Subject",
                     uuid |-> UuidW(mkuuid(Received(w)[i].ent.id)),
                     type |-> AvroEnum(0, "SUBJECT_PROCESS"),
                     cid |-> 0,
                     properties |->
                         Bag({ <<"type", "Node;Actor">>,
                               <<"schema", Received(w)[i].ent.ty_name>>,
                               <<"uuid", Received(w)[i].ent.uuid.name>>,
                               <<"ctx", Derived(Received(w)[i].ent.ctx)>> })]

C18_Witness ==
    /\ Len(Emitted(1)) >= 2
    /\ Received(1)[1] = DBTr("CreateNode", DataNode(1, "Actor", "process", "u-1", 2, NoMeta))
    /\ Received(1)[2].tr = "UpdateNode"
    /\ IsData(Received(1)[2], "Actor")
    /\ Emitted(1)[2].datum.schema = "Subject"

InfRecord(r, tag) ==
    [schema |-> "Event",
     uuid |-> UuidW(mkuuid(r.id)),
     type |-> AvroEnum(16, "EVENT_FLOWS_TO"),
     subject |-> AvroNone,
     predicateObject |-> UuidW(mkuuid(r.src)),
     predicateObject2 |-> UuidW(mkuuid(r.dst)),
     timestampNanos |-> 0,
     properties |-> Bag({ <<"type", tag>>, <<"ctx", Derived(r.ctx)>> })]

MapEvents ==
    { DBTr("CreateNode", DataNode(2, "Store", "file", "u-2", 2, NoMeta)),
      DBTr("UpdateNode", DataNode(2, "Store", "file", "u-2", 2, NoMeta)),
      DBTr("CreateNode", DataNode(1, "Conduit", "socket", "u-1", 2, NoMeta)),
      DBTr("UpdateNode", DataNode(3, "EditSession", "file", "u-3", 1, NoMeta)),
      DBTr("CreateNode", PathNode(1, "/bin/sh")),
      DBTr("UpdateNode", PathNode(1, "/bin/sh")),
      DBTr("CreateNode", NetNode(1, "10.0.0.1", 80)),
      DBTr("UpdateNode", NetNode(2, "::1", 8080)),
      DBTr("CreateNode", CtxNode(2, "cadets_context", << <<"host", "h1">> >>)),
      DBTr("UpdateNode", CtxNode(2, "cadets_context",
                                 << <<"type", "t">>, <<"schema", "s">> >>)),
      DBTr("CreateRel", InfRel(3, 1, 2, 2)),
      DBTr("UpdateRel", InfRel(3, 1, 2, 2)) }

NextMap ==
    \/ \E e \in MapEvents : Send(e)
    \/ Shutdown
    \/ Join
    \/ \E w \in Inst : CdmOpen(w)
    \/ \E w \in Inst : CdmHost(w)
    \/ \E w \in Inst : CdmRecv(w)
    \/ \E w \in Inst : CdmDrain(w)
    \/ \E w \in Inst : CdmFlush(w)

SpecMap == Init /\ [][NextMap]_vars

IsObject(e) == IsData(e, "Store") \/ IsData(e, "Conduit") \/ IsData(e, "EditSession")

\* C21: the record appended for a CreateNode or UpdateNode of a Store, a
\* Conduit or an EditSession with internal id i, uuid U, schema name s and
\* context C is a SrcSinkObject with identifier derive(i) and subtype unknown
\* source/sink, wrapping an AbstractObject whose property bag holds the type
\* tag of the subtype, s, U and derive(C), no key more; the records of two
\* objects of different subtypes carry different type tags.
C21_ObjectMapping ==
    \A w \in CdmWorkers :
        /\ \A i \in 1..Len(Emitted(w)) :
              IsObject(Received(w)[i]) =>
                  Emitted(w)[i].datum =
                      [schema |-> "SrcSinkObject",
                       uuid |-> UuidW(mkuuid(Received(w)[i].ent.id)),
                       baseObject |->
                           [schema |-> "AbstractObject",
                            properties |->
                                Bag({ <<"type", "Node;Object;" \o Received(w)[i].ent.pvm_ty>>,
                                      <<"schema", Received(w)[i].ent.ty_name>>,
                                      <<"uuid", Received(w)[i].ent.uuid.name>>,
                                      <<"ctx", Derived(Received(w)[i].ent.ctx)>> })],
                       type |-> AvroEnum(123, "SRCSINK_UNKNOWN")]
        /\ \A i \in 1..Len(Emitted(w)), j \in 1..Len(Emitted(w)) :
              (/\ IsObject(Received(w)[i])
               /\ IsObject(Received(w)[j])
               /\ Received(w)[i].ent.pvm_ty # Received(w)[j].ent.pvm_ty)
                  => Properties(Emitted(w)[i].datum)["type"]
                         # Properties(Emitted(w)[j].datum)["type"]

C21_Witness ==
    /\ Len(Emitted(1)) >= 2
    /\ IsData(Received(1)[1], "Conduit")
    /\ IsData(Received(1)[2], "EditSession")
    /\ Received(1)[2].tr = "UpdateNode"
    /\ Emitted(1)[2].datum.schema = "SrcSinkObject"

\* The declared fields of a context node, as name-value pairs.
Declared(c) == {c.cont[i] : i \in DOMAIN c.cont}

IsCtx(e) == IsNodeTr(e) /\ e.ent.node = "Ctx"

\* C22: the record appended for a Context node with schema name s and
\* declared fields (k1,v1)..(kn,vn), whatever the names of the fields, is a
\* ProvenanceTagNode with identifier derive(id) whose property bag holds the
\* type tag of a context under "type", s under "schema", and vi under ki
\* for every declared field.
C22_ContextMapping ==
    \A w \in CdmWorkers :
        \A i \in 1..Len(Emitted(w)) :
            IsCtx(Received(w)[i]) =>
                /\ Emitted(w)[i].datum.schema = "ProvenanceTagNode"
                /\ Emitted(w)[i].datum.tagId = UuidW(mkuuid(Received(w)[i].ent.id))
                /\ Emitted(w)[i].datum.properties["type"] = "Node;Context"
                /\ Emitted(w)[i].datum.properties["schema"] = Received(w)[i].ent.ty_name
                /\ \A kv \in Declared(Received(w)[i].ent) :
                      /\ kv[1] \in DOMAIN Emitted(w)[i].datum.properties
                      /\ Emitted(w)[i].datum.properties[kv[1]] = kv[2]

IsName(e, kind) == IsNodeTr(e) /\ e.ent.node = kind

\* The decimal numerals of the ports of the mapping run.
Decimal(n) == CASE n = 80 -> "80" [] n = 8080 -> "8080"

\* C23: the record appended for a Path name node is a ProvenanceTagNode
\* with identifier derive(id) and the property bag {type tag of a path name,
\* the path as it is}; for a Network name node it is a ProvenanceTagNode
\* with identifier derive(id) and the property bag {type tag of a network
\* name, the address, the port as its decimal numeral}; no key more.
C23_NameMapping ==
    \A w \in CdmWorkers :
        \A i \in 1..Len(Emitted(w)) :
            /\ IsName(Received(w)[i], "Path") =>
                  Emitted(w)[i].datum =
                      [schema |-> "ProvenanceTagNode",
                       tagId |-> UuidW(mkuuid(Received(w)[i].ent.id)),
                       subject |-> ZeroId,
                       properties |-> Bag({ <<"type", "Node;Name;Path">>,
                                            <<"path", Received(w)[i].ent.path>> })]
            /\ IsName(Received(w)[i], "Net") =>
                  /\ Emitted(w)[i].datum =
                        [schema |-> "ProvenanceTagNode",
                         tagId |-> UuidW(mkuuid(Received(w)[i].ent.id)),
                         subject |-> ZeroId,
                         properties |-> Bag({ <<"type", "Node;Name;Net">>,
                                              <<"addr", Received(w)[i].ent.addr>>,
                                              <<"port", to_string(Received(w)[i].ent.port)>> })]
                  /\ Emitted(w)[i].datum.properties["port"] = Decimal(Received(w)[i].ent.port)

C23_Witness ==
    /\ Len(Emitted(1)) >= 2
    /\ IsName(Received(1)[1], "Path")
    /\ Received(1)[2] = DBTr("UpdateNode", NetNode(2, "::1", 8080))
    /\ Emitted(1)[2].datum.properties["port"] = "8080"
    /\ Emitted(1)[1].datum.properties["path"] = "/bin/sh"

\* The record of an entity snapshot, whichever event carries it.
Snapshot(ent) ==
    RecordAvro(IF "node" \in DOMAIN ent THEN ClassifyNode(ent) ELSE ClassifyRel(ent))

\* C24, of the records: the record appended for an event is that of the
\* entity snapshot the event carries, whether the event creates or updates
\* the entity and whatever was received before it: two events of one stream
\* that carry the same snapshot have the same record.
C24_State ==
    \A w \in CdmWorkers :
        /\ \A i \in 1..Len(Emitted(w)) : Emitted(w)[i] = Snapshot(Received(w)[i].ent)
        /\ \A i \in 1..Len(Emitted(w)), j \in 1..Len(Emitted(w)) :
              Received(w)[i].ent = Received(w)[j].ent => Emitted(w)[i] = Emitted(w)[j]

\* C24, of the steps: a worker that takes an event and goes on has appended
\* one record, that of the event, after the records it had appended, which
\* are as they were; and no step changes or removes a record of the
\* container.
C24_Step ==
    \A w \in CdmWorkers :
        /\ (pc[w] = "Running" /\ pc'[w] = "Running" /\ Len(chan'[w]) < Len(chan[w])) =>
              Appended(w)' = Append(Appended(w), Snapshot(Head(chan[w]).ent))
        /\ Len(Container(w)') >= Len(Container(w))
        /\ \A i \in 1..Len(Container(w)) : Container(w)'[i] = Container(w)[i]

C24_Stateless == [](C24_State) /\ [][C24_Step]_vars

C24_Witness ==
    /\ Len(Emitted(1)) = 2
    /\ Received(1)[1] = DBTr("CreateNode", DataNode(2, "Store", "file", "u-2", 2, NoMeta))
    /\ Received(1)[2] = DBTr("UpdateNode", DataNode(2, "Store", "file", "u-2", 2, NoMeta))
    /\ Emitted(1)[1] = Emitted(1)[2]
    /\ Len(Appended(1)) = 3

(***************************************************************************)
(* The process-tree run: the host creates one process-tree view, in either *)
(* format and with either metadata key, and the engine emits a stream of   *)
(* actors (one of them first without, then with a pid, and under another   *)
(* command line), another node and edges.                                  *)
(***************************************************************************)
Meta(cmd, pid) == [k \in {"cmdline", "pid"} |-> IF k = "cmdline" THEN cmd ELSE pid]

\* A dot view with the default metadata key, a JSON view with the key pid.
ProcTreeConfigs ==
    { [k \in {"output", "fmt"} |-> IF k = "fmt" THEN "dot" ELSE "out.bin"],
      [k \in {"output", "meta_key"} |-> IF k = "output" THEN "out.bin" ELSE "pid"] }

ProcEvents ==
    { DBTr("CreateNode", DataNode(1, "Actor", "process", "u-1", 9, Cmd("sh"))),
      DBTr("UpdateNode", DataNode(1, "Actor", "process", "u-1", 9, Meta("ls", "7"))),
      DBTr("CreateNode", DataNode(2, "Actor", "process", "u-2", 9, Cmd("sh"))),
      DBTr("CreateNode", DataNode(3, "Store", "file", "u-3", 9, Cmd("sh"))),
      DBTr("CreateRel", InfRel(5, 1, 2, 9)),
      DBTr("UpdateRel", InfRel(5, 1, 2, 9)),
      DBTr("CreateRel", NamedRel(6, 1, 2, 1, 2)) }

\* The engine emits one event of the process-tree run.
EmitProc(e) ==
    /\ host = "ingest"
    /\ Len(sent) < MaxProcEvents
    /\ sent' = Append(sent, e)
    /\ chan' = [i \in Inst |-> IF i \in Created THEN Append(chan[i], e) ELSE chan[i]]
    /\ UNCHANGED <<host, views, closed, pc, handle, buf, fs, cache, faulty, enc, running, kafka>>

NextProc ==
    \/ \E c \in ProcTreeConfigs : CreateProcTree(1, c)
    \/ StartIngest
    \/ \E e \in ProcEvents : EmitProc(e)
    \/ Shutdown
    \/ Join
    \/ \E w \in Inst : ProcRecv(w)
    \/ \E w \in Inst : ProcDrain(w)

SpecProc == InitHost /\ [][NextProc]_vars

ProcWorkers == {w \in Inst : views[w].kind = "proc"}

MetaKey(w) == get_or_def(views[w].params, "meta_key", "cmdline")

\* The worker is in its loop or has returned from it: no write has failed.
Sound(w) == pc[w] \in {"Running", "Terminated"}

\* The lines of the output: for dot, what stands between header and brace.
Lines(w) ==
    IF ProcFmt(views[w].params) = "json" THEN Container(w)
    ELSE SubSeq(Container(w), 2, Len(Container(w)) - 1)

NodeLine(w, id, label) ==
    IF ProcFmt(views[w].params) = "json" THEN JsonNode(id, label) ELSE DotNode(id, label)

RelLine(w, src, dst) ==
    IF ProcFmt(views[w].params) = "json" THEN JsonRel(src, dst) ELSE DotRel(src, dst)

Label(v) == IF v.some THEN v.v ELSE "???"

ProcIds == {1, 2, 3}

ProcLabels == {"sh", "ls", "7", "???"}

IsNodeLine(item) ==
    \E id \in ProcIds, l \in ProcLabels : item \in {JsonNode(id, l), DotNode(id, l)}

\* The actor events before place i of evs that carry the actor of evs[i].
Earlier(evs, i) ==
    {j \in 1..(i - 1) : IsData(evs[j], "Actor") /\ evs[j].ent.id = evs[i].ent.id}

Latest(S) == CHOOSE j \in S : \A k \in S : k <= j

\* Event i of evs shows its actor for the first time, or with another value
\* of the key than the actor event before it.
Changed(evs, i, key) ==
    /\ IsData(evs[i], "Actor")
    /\ \/ Earlier(evs, i) = {}
       \/ cur(evs[Latest(Earlier(evs, i))].ent.meta, key) # cur(evs[i].ent.meta, key)

\* The node lines a stream calls for, one for every change.
RECURSIVE NodeLines(_, _, _)
NodeLines(w, evs, n) ==
    IF n = 0 THEN <<>>
    ELSE NodeLines(w, evs, n - 1)
         \o (IF Changed(evs, n, MetaKey(w))
             THEN <<NodeLine(w, evs[n].ent.id, Label(cur(evs[n].ent.meta, MetaKey(w))))>>
             ELSE <<>>)

\* C25, of the steps: taking an Actor event, the worker writes a node line
\* (of the value, or ??? for none) exactly if the actor is not in its cache
\* or is there with another value of the key, and the cache then maps the
\* actor to the value of the event; taking another node event it writes
\* nothing and leaves the cache as it is.
C25_Step ==
    \A w \in ProcWorkers :
        (pc[w] = "Running" /\ pc'[w] = "Running" /\ Len(chan'[w]) < Len(chan[w])
            /\ IsNodeTr(Head(chan[w]))) =>
            IF IsData(Head(chan[w]), "Actor")
            THEN /\ Lines(w)' =
                       IF \/ Head(chan[w]).ent.id \notin DOMAIN cache[w]
                          \/ cache[w][Head(chan[w]).ent.id]
                                 # cur(Head(chan[w]).ent.meta, MetaKey(w))
                       THEN Append(Lines(w),
                                   NodeLine(w, Head(chan[w]).ent.id,
                                            Label(cur(Head(chan[w]).ent.meta, MetaKey(w)))))
                       ELSE Lines(w)
                 /\ DOMAIN cache'[w] = DOMAIN cache[w] \cup {Head(chan[w]).ent.id}
                 /\ \A id \in DOMAIN cache'[w] :
                       cache'[w][id] =
                           IF id = Head(chan[w]).ent.id
                           THEN cur(Head(chan[w]).ent.meta, MetaKey(w))
                           ELSE cache[w][id]
            ELSE /\ Lines(w)' = Lines(w)
                 /\ cache'[w] = cache[w]

\* C25, of the output: the node lines of the output are one for every
\* change of the stream taken so far, in order: two successive events of an
\* actor with the same value leave one line.
C25_State ==
    \A w \in ProcWorkers :
        Sound(w) =>
            SelectSeq(Lines(w), IsNodeLine) = NodeLines(w, Received(w), Len(Received(w)))

C25_NodeDedup == [](C25_State) /\ [][C25_Step]_vars

C25_Witness ==
    /\ 1 \in ProcWorkers
    /\ Sound(1)
    /\ Len(Received(1)) = 3
    /\ Received(1)[1] = DBTr("CreateNode", DataNode(1, "Actor", "process", "u-1", 9, Cmd("sh")))
    /\ Received(1)[2] = DBTr("UpdateNode", DataNode(1, "Actor", "process", "u-1", 9, Meta("ls", "7")))
    /\ Received(1)[3] = Received(1)[2]
    /\ MetaKey(1) = "cmdline"
    /\ Lines(1) = <<NodeLine(1, 1, "sh"), NodeLine(1, 1, "ls")>>

IsRelLine(item, src, dst) == item \in {JsonRel(src, dst), DotRel(src, dst)}

IsNodeLineOf(item, id) == \E l \in ProcLabels : item \in {JsonNode(id, l), DotNode(id, l)}

RelLinesOf(c) ==
    SelectSeq(c, LAMBDA item : \E s \in ProcIds, d \in ProcIds : IsRelLine(item, s, d))

\* C26, of the steps: taking an event and going on, the worker writes a
\* relationship line exactly if the event is a CreateRel of an Inference
\* edge both of whose ends are in its cache; on an UpdateRel, a Named edge or
\* an edge with an end it has not seen it writes nothing, and no node event
\* adds a relationship line.
C26_Step ==
    \A w \in ProcWorkers :
        (pc[w] = "Running" /\ pc'[w] = "Running" /\ Len(chan'[w]) < Len(chan[w])) =>
            IF IsNodeTr(Head(chan[w]))
            THEN RelLinesOf(Lines(w))' = RelLinesOf(Lines(w))
            ELSE /\ Lines(w)' =
                       IF /\ Head(chan[w]).tr = "CreateRel"
                          /\ Head(chan[w]).ent.rel = "Inf"
                          /\ Head(chan[w]).ent.src \in DOMAIN cache[w]
                          /\ Head(chan[w]).ent.dst \in DOMAIN cache[w]
                       THEN Append(Lines(w),
                                   RelLine(w, Head(chan[w]).ent.src, Head(chan[w]).ent.dst))
                       ELSE Lines(w)
                 /\ cache'[w] = cache[w]

\* C26, of the output: at every moment every relationship line of the
\* output stands after a node line of its source and a node line of its
\* destination.
C26_State ==
    \A w \in ProcWorkers :
        \A i \in 1..Len(Container(w)) :
            \A s \in ProcIds, d \in ProcIds :
                IsRelLine(Container(w)[i], s, d) =>
                    /\ \E j \in 1..(i - 1) : IsNodeLineOf(Container(w)[j], s)
                    /\ \E j \in 1..(i - 1) : IsNodeLineOf(Container(w)[j], d)

C26_KnownEnds == [](C26_State) /\ [][C26_Step]_vars

C26_Witness ==
    /\ 1 \in ProcWorkers
    /\ Sound(1)
    /\ Len(Received(1)) = 3
    /\ Received(1)[3] = DBTr("CreateRel", InfRel(5, 1, 2, 9))
    /\ Len(Lines(1)) = 3
    /\ Lines(1)[3] = RelLine(1, 1, 2)
    /\ IsNodeLineOf(Lines(1)[1], 2)
    /\ IsNodeLineOf(Lines(1)[2], 1)

DotWorkers == {w \in ProcWorkers : ProcFmt(views[w].params) = "dot"}

\* The actor of id has a node line: an event before place n carries it.
Seen(evs, n, id) == \E j \in 1..(n - 1) : IsData(evs[j], "Actor") /\ evs[j].ent.id = id

\* The calls of write_node and write_rel that the first n events of evs
\* lead to, as the lines they write, in call order.
RECURSIVE Calls(_, _, _)
Calls(w, evs, n) ==
    IF n = 0 THEN <<>>
    ELSE Calls(w, evs, n - 1)
         \o (IF Changed(evs, n, MetaKey(w))
             THEN <<NodeLine(w, evs[n].ent.id, Label(cur(evs[n].ent.meta, MetaKey(w))))>>
             ELSE IF /\ evs[n].tr = "CreateRel"
                     /\ evs[n].ent.rel = "Inf"
                     /\ Seen(evs, n, evs[n].ent.src)
                     /\ Seen(evs, n, evs[n].ent.dst)
             THEN <<RelLine(w, evs[n].ent.src, evs[n].ent.dst)>>
             ELSE <<>>)

\* C27, of the file: from its creation on, and after every call that has
\* returned, the dot file is the header line, the lines of the calls in call
\* order, and one closing brace, which is its last item and stands nowhere
\* else.
C27_State ==
    \A w \in DotWorkers :
        Sound(w) =>
            /\ Container(w) =
                  <<DotHeader>> \o Calls(w, Received(w), Len(Received(w))) \o <<DotBrace>>
            /\ Container(w)[Len(Container(w))] = DotBrace
            /\ \A i \in 1..(Len(Container(w)) - 1) : Container(w)[i] # DotBrace

\* C27, of the calls: a call that returns has put its line in the place of
\* the closing brace and a closing brace after it, and has left everything
\* before as it was.
C27_Step ==
    \A w \in DotWorkers :
        (pc[w] = "Running" /\ pc'[w] = "Running" /\ Container(w)' # Container(w)) =>
            /\ Len(Container(w)') = Len(Container(w)) + 1
            /\ Container(w)[Len(Container(w))] = DotBrace
            /\ Container(w)'[Len(Container(w))] # DotBrace
            /\ Container(w)'[Len(Container(w)) + 1] = DotBrace
            /\ \A i \in 1..(Len(Container(w)) - 1) : Container(w)'[i] = Container(w)[i]

C27_DotWellFormed == [](C27_State) /\ [][C27_Step]_vars

C27_Witness ==
    /\ 1 \in DotWorkers
    /\ Sound(1)
    /\ Len(Received(1)) = 3
    /\ Received(1)[3] = DBTr("CreateRel", InfRel(5, 1, 2, 9))
    /\ Len(Container(1)) = 5
    /\ Container(1)[1] = DotHeader
    /\ Container(1)[4] = DotRel(1, 2)
    /\ Container(1)[5] = DotBrace

(***************************************************************************)
(* The Kafka run: the host polls a topic until it is told to stop.  A      *)
(* message is a trace record that parses and that the engine takes (ok),   *)
(* one that is not JSON of a trace record (badjson), or one that the       *)
(* engine rejects (rejected); its offset is its place in the topic.        *)
(***************************************************************************)
MsgKinds == {"ok", "badjson", "rejected"}

Topics == UNION { [1..n -> MsgKinds] : n \in 0..MaxMsgs }

Msg(topic, n) == [offset |-> n - 1, kind |-> topic[n]]

\* The messages a + 1 .. b of the topic as one message set.
MsgSet(topic, a, b) == [n \in 1..(b - a) |-> Msg(topic, a + n)]

InitKafka ==
    /\ host = "ingest"
    /\ views = [i \in Inst |-> NoView]
    /\ sent = <<>>
    /\ chan = [i \in Inst |-> <<>>]
    /\ closed = [i \in Inst |-> FALSE]
    /\ pc = [i \in Inst |-> "None"]
    /\ handle = [i \in Inst |-> NoFile]
    /\ buf = [i \in Inst |-> <<>>]
    /\ fs = [p \in Paths |-> <<Stale>>]
    /\ cache = [i \in Inst |-> NoParams]
    /\ faulty \in BOOLEAN
    /\ enc = NoEncodings
    /\ running = TRUE
    /\ \E t \in Topics, nf \in BOOLEAN :
          kafka = [pc |-> "top", topic |-> t, nofollow |-> nf, next |-> 0, last |-> "none",
                   mss |-> <<>>, i |-> 0, ingested |-> <<>>, reported |-> <<>>,
                   calls |-> <<>>, consumed |-> <<>>]

\* The Ctrl-C handler: r.store(false, Ordering::SeqCst)
CtrlC ==
    /\ Alive
    /\ running
    /\ running' = FALSE
    /\ UNCHANGED <<host, views, sent, chan, closed, pc, handle, buf, fs, cache, faulty, enc,
                   kafka>>

\* while running.load(Ordering::SeqCst)
KafkaTest ==
    /\ host = "ingest"
    /\ kafka.pc = "top"
    /\ kafka' = [kafka EXCEPT !.pc = IF running THEN "poll" ELSE "exit"]
    /\ UNCHANGED <<host, views, sent, chan, closed, pc, handle, buf, fs, cache, faulty, enc,
                   running>>

\* kafka.poll(): no message set, or the next messages of the topic in one or
\* two message sets, or an error, which is reported.
KafkaPoll ==
    /\ host = "ingest"
    /\ kafka.pc = "poll"
    /\ \/ kafka' = [kafka EXCEPT !.last = "empty",
                                 !.pc = IF kafka.nofollow THEN "exit" ELSE "top"]
       \/ \E k \in 1..(Len(kafka.topic) - kafka.next) :
             \E cut \in 1..k :
                kafka' = [kafka EXCEPT
                             !.last = "batch",
                             !.mss = IF cut = k
                                     THEN <<MsgSet(kafka.topic, kafka.next, kafka.next + k)>>
                                     ELSE <<MsgSet(kafka.topic, kafka.next, kafka.next + cut),
                                            MsgSet(kafka.topic, kafka.next + cut,
                                                   kafka.next + k)>>,
                             !.next = @ + k,
                             !.i = 0,
                             !.pc = "msg"]
       \/ /\ faulty
          /\ kafka' = [kafka EXCEPT !.last = "error", !.pc = "top"]
    /\ UNCHANGED <<host, views, sent, chan, closed, pc, handle, buf, fs, cache, faulty, enc,
                   running>>

Report(m) ==
    [offset |-> m.offset,
     error |-> IF m.kind = "badjson" THEN "JSON Parsing error" ELSE "PVM error"]

\* A loop that gives up at the first message it cannot ingest.
KafkaMessage_StopOnError ==
    /\ host = "ingest"
    /\ kafka.pc = "msg"
    /\ kafka.i < Len(Head(kafka.mss))
    /\ \E m \in {Head(kafka.mss)[kafka.i + 1]} :
          kafka' = [kafka EXCEPT
                       !.i = @ + 1,
                       !.pc = IF m.kind = "ok" THEN @ ELSE "exit",
                       !.ingested = IF m.kind = "ok" THEN Append(@, m.offset) ELSE @,
                       !.reported = IF m.kind = "ok" THEN @ ELSE Append(@, Report(m))]
    /\ UNCHANGED <<host, views, sent, chan, closed, pc, handle, buf, fs, cache, faulty, enc,
                   running>>

\* One message of `for m in ms.messages()`: it is parsed and given to the
\* engine; a message that does not parse, or that the engine rejects, is
\* reported with its offset.
KafkaMessage ==
    /\ host = "ingest"
    /\ kafka.pc = "msg"
    /\ kafka.i < Len(Head(kafka.mss))
    /\ \E m \in {Head(kafka.mss)[kafka.i + 1]} :
          kafka' = [kafka EXCEPT
                       !.i = @ + 1,
                       !.ingested = IF m.kind = "ok" THEN Append(@, m.offset) ELSE @,
                       !.reported = IF m.kind = "ok" THEN @ ELSE Append(@, Report(m))]
    /\ UNCHANGED <<host, views, sent, chan, closed, pc, handle, buf, fs, cache, faulty, enc,
                   running>>

\* kafka.consume_messageset(ms), after the last message of the set: the set
\* is marked consumed, or the error is reported; then the next set, or the
\* top of the loop.
KafkaConsume ==
    /\ host = "ingest"
    /\ kafka.pc = "msg"
    /\ kafka.i = Len(Head(kafka.mss))
    /\ \E ok \in (IF faulty THEN BOOLEAN ELSE {TRUE}) :
          kafka' = [kafka EXCEPT
                       !.calls = Append(@, Head(kafka.mss)),
                       !.consumed = IF ok THEN Append(@, Head(kafka.mss)) ELSE @,
                       !.mss = Tail(@),
                       !.i = 0,
                       !.pc = IF Tail(kafka.mss) = <<>> THEN "top" ELSE "msg"]
    /\ UNCHANGED <<host, views, sent, chan, closed, pc, handle, buf, fs, cache, faulty, enc,
                   running>>

\* engine.shutdown_pipeline(), after the loop.
KafkaShutdown ==
    /\ kafka.pc = "exit"
    /\ Shutdown

NextKafka ==
    \/ CtrlC
    \/ KafkaTest
    \/ KafkaPoll
    \/ KafkaMessage
    \/ KafkaConsume
    \/ KafkaShutdown
    \/ Join

\* The host thread runs whenever it can; Ctrl-C comes when it comes.
FairKafka ==
    /\ InitKafka
    /\ [][NextKafka]_vars
    /\ WF_vars(KafkaTest \/ KafkaPoll \/ KafkaMessage \/ KafkaConsume \/ KafkaShutdown \/ Join)

RECURSIVE Flatten(_)
Flatten(ss) == IF ss = <<>> THEN <<>> ELSE Head(ss) \o Flatten(Tail(ss))

\* The messages the loop has dealt with: those of the sets it is through
\* with, and the first kafka.i of the set it is in.
Processed == Len(Flatten(kafka.calls)) + kafka.i

\* The messages of kind k among the first n of the topic, in order.
OfKind(n, K) ==
    SelectSeq([j \in 1..n |-> Msg(kafka.topic, j)], LAMBDA m : m.kind \in K)

\* C28, of the state: the messages dealt with are the first of the topic;
\* those ingested are the ones among them that parse and that the engine
\* takes, in the order of the topic, the others are reported, each once;
\* consume_messageset has been called for every set the loop is through
\* with, whatever its messages, and without a Kafka error every such set is
\* marked consumed; the host is past the loop only when the loop has ended.
C28_State ==
    /\ Processed <= Len(kafka.topic)
    /\ Flatten(kafka.calls) = [j \in 1..Len(Flatten(kafka.calls)) |-> Msg(kafka.topic, j)]
    /\ kafka.ingested = [j \in 1..Len(OfKind(Processed, {"ok"})) |->
                             OfKind(Processed, {"ok"})[j].offset]
    /\ kafka.reported = [j \in 1..Len(OfKind(Processed, {"badjson", "rejected"})) |->
                             Report(OfKind(Processed, {"badjson", "rejected"})[j])]
    /\ ~faulty => kafka.consumed = kafka.calls
    /\ host # "ingest" => kafka.pc = "exit"

\* C28, of the steps: a message that cannot be ingested leaves the loop
\* where it is, at the next message; the loop ends only at its top with the
\* flag cleared, or with no-follow on a poll that brings nothing, and then it
\* does end; shutdown is entered from the ended loop and never again.
C28_Step ==
    /\ (kafka.pc = "msg" /\ kafka'.i = kafka.i + 1
            /\ Head(kafka.mss)[kafka.i + 1].kind # "ok") =>
          /\ kafka'.pc = "msg"
          /\ kafka'.mss = kafka.mss
          /\ kafka'.ingested = kafka.ingested
          /\ kafka'.reported = Append(kafka.reported, Report(Head(kafka.mss)[kafka.i + 1]))
          /\ host' = "ingest"
    /\ (kafka.pc # "exit" /\ kafka'.pc = "exit") =>
          \/ kafka.pc = "top" /\ ~running
          \/ kafka.pc = "poll" /\ kafka.nofollow /\ kafka'.last = "empty"
    /\ (kafka.pc = "top" /\ kafka'.pc # "top") => kafka'.pc = IF running THEN "poll" ELSE "exit"
    /\ (kafka.pc = "poll" /\ kafka'.pc # "poll" /\ kafka'.last = "empty" /\ kafka.nofollow) =>
          kafka'.pc = "exit"
    /\ kafka.pc = "exit" => kafka'.pc = "exit"
    /\ (host = "ingest" /\ host' # "ingest") => (kafka.pc = "exit" /\ host' = "shutdown")
    /\ host # "ingest" => host' # "ingest"

\* C28, of the end: once Ctrl-C has cleared the flag the loop ends and
\* shutdown_pipeline is called; with no-follow, and Kafka not failing, they
\* are in any case.
C28_Live ==
    /\ (~running) ~> (host # "ingest")
    /\ (kafka.nofollow /\ ~faulty) ~> (host # "ingest")

C28_IngestLoop == [](C28_State) /\ [][C28_Step]_vars /\ C28_Live

C28_Witness ==
    /\ host = "exited"
    /\ kafka.topic = <<"rejected", "ok">>
    /\ kafka.ingested = <<1>>
    /\ kafka.reported = <<[offset |-> 0, error |-> "PVM error"]>>
    /\ Len(kafka.consumed) = 2
    /\ ~running

====
